---- MODULE Spec2Model ----
(***************************************************************************)
(* Verification model of the hermes gateway data plane.                    *)
(*                                                                         *)
(*   SpecBreaker       the per-node circuit breaker                        *)
(*                     (upstream/circuit_breaker.rs), one step per atomic  *)
(*                     access, calls overlapping                           *)
(*   SpecBreakerSeq    the same, one call at a time                        *)
(*   SpecUpstream      phase_upstream + select_healthy_node                *)
(*                     (proxy/handler.rs), requests in flight together     *)
(*   SpecUpstreamSolo  the same, one request at a time, every cluster      *)
(*                     configuration, active health marks                  *)
(*   SpecRoute         route-table snapshots and domain mutations          *)
(*                     (server/state.rs, routing/matcher.rs)               *)
(*   SpecUpstreamTimed phase_upstream against the clock: the deadline and  *)
(*                     the per-attempt timeout                             *)
(*   SpecCluster       the load balancer's instances and counters under    *)
(*                     selects, upserts and discovery updates              *)
(*                     (upstream/cluster.rs, upstream/loadbalance/)        *)
(*   SpecRateLimit     request tasks checking one rate limiter together,   *)
(*                     its GC task (proxy/filter/rate_limit.rs)            *)
(*   SpecRateLimitSolo one check at a time, the peer count changing        *)
(*   SpecWatch         the config watcher: the initial load, the three     *)
(*                     watch streams, reconnects (config/etcd.rs,          *)
(*                     server/bootstrap.rs)                                *)
(*   SpecWatchFair     the same, every enabled step eventually taken       *)
(*   SpecLoops         the background loops and the shutdown notification  *)
(*   SpecLoopsFair     the same, every loop scheduled again and again      *)
(*   SpecMatch         RouteTable::new and match_route on domain lists     *)
(*                     (routing/matcher.rs, routing/radix_tree.rs)         *)
(*   SpecRoundRobin    the weighted round-robin selection on a fixed list  *)
(*   SpecP2C           the P2C selection with its two samples on record    *)
(*   SpecHealth        the active health checker: probes, the per-node     *)
(*                     counter and the two thresholds (upstream/health.rs) *)
(*   SpecPurge         requests and probes while the node set of the       *)
(*                     cluster changes                                     *)
(*   SpecSelect        select_healthy_node of requests sharing the         *)
(*                     balancer, active health marks                       *)
(*   SpecSkip          the balancer's guards when select_healthy_node      *)
(*                     skips a candidate                                   *)
(*   SpecRebuild       the route's rate limiter and the GC tasks across    *)
(*                     route-table rebuilds (proxy/filter/mod.rs)          *)
(***************************************************************************)
EXTENDS Integers, Sequences, FiniteSets, TLC

\* ------------------------------------------------------------------------
\* Bounds of the model
\* ------------------------------------------------------------------------
NumCallers == 2

MaxTime == 1

MaxThreshold == 2

MaxOpenDuration == 1

MaxBudget == 1

MaxFlagged == 1
\* the clock of the timed upstream specification runs from 0 to MaxClock
MaxClock == 3
\* largest timeout.send + timeout.read of the timed upstream specification
MaxTimedBudget == 2
\* LoadBalancer::select calls in one behaviour of the cluster specification
MaxSelects == 2
\* cluster upserts and discovery updates in one behaviour of the cluster
\* specification
MaxUpdates == 2

CounterBits == 1
\* rate-limit keys of the limiter specification
NumKeys == 2
\* request tasks of the limiter specification
NumCheckers == 2
\* steps of the limiter's clock in one behaviour
MaxTicks == 2
\* RateLimiter::check calls in one behaviour
MaxChecks == 3
\* changes of the peer count in one behaviour
MaxScales == 1

NumMutators == 2
\* etcd commits at most MaxChanges changes
MaxChanges == 2
\* watch streams end or fail during the first MaxReconnects rounds of the watch loop
MaxReconnects == 1
\* a domain of the tree tables has at most MaxRoutes routes
MaxRoutes == 3
\* a table of the host partition is built from at most MaxDomains domains
MaxDomains == 2
\* the counter of the round-robin balancer has RrCounterBits bits
RrCounterBits == 3
\* at most MaxPicks round-robin selections
MaxPicks == 10
\* the thresholds of the active health check range over 1..MaxHcThreshold
MaxHcThreshold == 2
\* at most MaxProbes probes of the active health checker
MaxProbes == 4
\* at most MaxPurgeProbes probes while the node set of the cluster changes
MaxPurgeProbes == 1
\* route-table rebuilds in one behaviour
MaxRebuilds == 2

Callers == 1..NumCallers

\* ------------------------------------------------------------------------
\* Program constants
\* ------------------------------------------------------------------------
STATE_CLOSED == 0

STATE_OPEN == 1

STATE_HALF_OPEN == 2

VARIABLES
    now,            \* Instant::now(), in whole seconds
    cb_cfg,         \* ClusterConfig.circuit_breaker : <<>> (None) or <<CircuitBreakerConfig>>
    breakers,       \* CircuitBreakerRegistry.breakers : node key -> NodeBreaker
    pc,             \* position of each caller / request task
    cont,           \* where the caller continues when the breaker call returns
    bnode,          \* the node key of the breaker call in progress
    bop,            \* the breaker call in progress: "check", "record_success", "record_failure"
    bret,           \* value returned by the last breaker call of the caller
    hist,           \* history (ghost) per node, read only by the properties
    cstale,         \* history: the caller's check began before the latest transition into Open
    streak,         \* history of non-overlapping calls: failures since the last success
    cprobe,         \* history: the caller's check was admitted while another caller's probe was out
    cfg,            \* ClusterConfig of the cluster: nodes, retry, timeout (send + read)
    node_health,    \* Cluster.node_health : node key -> bool (absent = healthy)
    rr_counter,     \* RoundRobinBalancer.counter
    req,            \* locals of phase_upstream / select_healthy_node of each request task
    domains,        \* RoutingState.domains : the domain list the route table was built from
    route_table,    \* RoutingState.route_table : the installed RouteTable
    config_mu,      \* GatewayState.config_mu : 0 (free) or the task holding it
    mtask,          \* locals of upsert_domain / delete_domain of each config task
    rtask,          \* locals of phase_route_match of each request task
    installedFull,  \* history: RouteTable::new of the domain list of the latest install
    discovered,     \* Cluster.discovered_nodes : the node list of service discovery
    lb,             \* Cluster.lb : the balancer kind and its instance list
    heap,           \* the shared atomics (Arc<AtomicUsize>, Arc<AtomicU64>) by cell
    guard,          \* the RequestGuard of each request task
    utask,          \* locals of ClusterStore::upsert and of update_discovered_nodes
    nsel,           \* number of LoadBalancer::select calls so far
    nupd,           \* number of upserts and discovery updates so far
    rl_cfg,         \* RateLimitConfig of the route's rate-limit filter
    instance_count, \* RateLimiter.instance_count : the shared AtomicU32
    now_us,         \* now_us(), microseconds of the limiter's monotonic clock
    buckets,        \* RateLimiter.buckets : key -> Arc<Bucket>
    windows,        \* RateLimiter.windows : key -> Arc<SlidingWindow>
    bheap,          \* the Bucket objects by Arc
    wheap,          \* the SlidingWindow objects by Arc
    chk,            \* locals of check / try_acquire of each request task
    nticks,         \* number of clock steps so far
    nchk,           \* number of RateLimiter::check calls so far
    nset,           \* number of changes of the peer count so far
    etcd_log,       \* etcd: the kind of every committed change, change i at revision i + 1
    watcher,        \* locals of the task of start_config_watcher
    streams,        \* the three tasks spawned by watch_once, by prefix kind
    chan,           \* the unbounded channel of ConfigEvents of the current watch_once
    applied,        \* history: revisions of the changes applied to the gateway state
    shutdown,       \* history: wait_for_shutdown has called notify_waiters
    loops,          \* position of each background loop
    m_domains,      \* the domain list RouteTable::new is given
    m_table,        \* the RouteTable built from it
    m_req,          \* the request of the latest match_route
    m_res,          \* the route it returned, the stage and the tree it came from
    rr,             \* a RoundRobinBalancer: its instances, its counter, history of selections
    sample,         \* history: the indices sampled by the latest P2C do_select, its result
    hc,             \* the active health checker: Cluster.health_check_count, the probe in flight
    rlim            \* the RateLimiters built for the route by the route tables so far, their GC tasks

brkVars == <<now, cb_cfg, breakers, pc, cont, bnode, bop, bret, hist, cstale, streak, cprobe>>

upVars == <<cfg, node_health, rr_counter, req>>

routeVars == <<domains, route_table, config_mu, mtask, rtask, installedFull>>

clVars == <<discovered, lb, heap, guard, utask, nsel, nupd>>

rlVars == <<rl_cfg, instance_count, now_us, buckets, windows, bheap, wheap, chk, nticks, nchk, nset>>

bgVars == <<etcd_log, watcher, streams, chan, applied, shutdown, loops>>

\* the variables of the specifications added after the rate limiter
fnVars == <<m_domains, m_table, m_req, m_res, rr, sample>>

\* the variables of the active health checker
hcVars == <<hc>>

\* the variables of the limiters across route-table rebuilds
rbVars == <<rlim>>

xVars == <<bgVars, fnVars, hcVars, rbVars>>

extVars == <<clVars, rlVars, xVars>>

vars == <<brkVars, upVars, routeVars, extVars>>

\* Option<T> is a sequence of length 0 (None) or 1 (Some)
None == <<>>

Some(x) == <<x>>

IsSome(o) == Len(o) = 1

Unwrap(o) == o[1]

\* ------------------------------------------------------------------------
\* Route table (routing/matcher.rs)
\* ------------------------------------------------------------------------
Mutators == 1..NumMutators

\* RouteConfig values: name and status (1 = active)
RouteConfigs ==
    {[name |-> "r1", status |-> 1], [name |-> "r2", status |-> 1], [name |-> "r2", status |-> 0]}

\* DomainConfig values: domain "site" serves the exact host "a.com", domain
\* "_default" the catch-all host "_"; each carries one route
DomainConfigs ==
    {[name |-> "site", hosts |-> <<"a.com">>, routes |-> <<r>>] : r \in RouteConfigs}
        \cup {[name |-> "_default", hosts |-> <<"_">>, routes |-> <<r>>] : r \in RouteConfigs}

DomainNames == {d.name : d \in DomainConfigs}

\* hosts of incoming requests (lower case, no port)
RequestHosts == {"a.com", "b.com"}

\* RouteTable with no routes: exact_hosts maps host -> routes of its tree,
\* default holds the routes of the default tree
EmptyTable == [exact_hosts |-> << >>, default |-> << >>]

\* RouteTable::new, the body of `for host in &domain.hosts` for route c
AddHost(tbl, host, c) ==
    IF host = "_"
    THEN [tbl EXCEPT !.default = Append(@, c.name)]
    ELSE [tbl EXCEPT !.exact_hosts =
            [h \in DOMAIN @ \cup {host} |->
                IF h = host
                THEN Append(IF host \in DOMAIN @ THEN @[host] ELSE << >>, c.name)
                ELSE @[h]]]

RECURSIVE AddHosts(_, _, _, _)
AddHosts(tbl, hosts, i, c) ==
    IF i > Len(hosts) THEN tbl
    ELSE AddHosts(AddHost(tbl, hosts[i], c), hosts, i + 1, c)

\* RouteTable::new, the body of `for cfg in &domain.routes`: inactive routes
\* are skipped
RECURSIVE AddRoutes(_, _, _)
AddRoutes(tbl, domain, j) ==
    IF j > Len(domain.routes) THEN tbl
    ELSE LET c == domain.routes[j] IN
         AddRoutes(IF c.status # 1 THEN tbl ELSE AddHosts(tbl, domain.hosts, 1, c),
                   domain, j + 1)

\* RouteTable::new, one iteration of `for domain in domains`
AddDomain(tbl, domain) == AddRoutes(tbl, domain, 1)

\* RouteTable::new(domains)
RECURSIVE BuildFrom(_, _, _)
BuildFrom(tbl, doms, i) ==
    IF i > Len(doms) THEN tbl ELSE BuildFrom(AddDomain(tbl, doms[i]), doms, i + 1)

RouteTableNew(doms) == BuildFrom(EmptyTable, doms, 1)

\* match_in_tree on a tree whose routes all match the request: the first route
match_in_tree(tree) == IF tree = << >> THEN None ELSE Some(tree[1])

\* match_route, step 1: the exact-host tree
match_exact(tbl, host) ==
    IF host \in DOMAIN tbl.exact_hosts THEN match_in_tree(tbl.exact_hosts[host]) ELSE None

\* match_route, step 3: the default tree
match_default(tbl) == match_in_tree(tbl.default)

\* match_route on one table (the modelled tables hold no wildcard hosts)
match_route(tbl, host) ==
    IF IsSome(match_exact(tbl, host)) THEN match_exact(tbl, host) ELSE match_default(tbl)

NewMTask == [pc |-> "idle", domains |-> << >>, i |-> 0, new_table |-> EmptyTable]

NewRTask ==
    [pc |-> "idle", host |-> "", table |-> EmptyTable, route |-> None,
     expect |-> EmptyTable]     \* history: installedFull when the table was loaded

\* GatewayState::new: no domains, the empty route table
InitRouting ==
    /\ domains = << >>
    /\ route_table = EmptyTable
    /\ config_mu = 0
    /\ mtask = [m \in Mutators |-> NewMTask]
    /\ rtask = [r \in Callers |-> NewRTask]
    /\ installedFull = EmptyTable

\* ------------------------------------------------------------------------
\* Cluster configuration and request locals (config/types.rs, proxy/handler.rs)
\* ------------------------------------------------------------------------
Nodes == {"a:80", "b:80"}

\* UpstreamNode lists: endpoint ("host:port") and weight
NodeLists ==
    {<<[endpoint |-> "a:80", weight |-> 1]>>,
     <<[endpoint |-> "a:80", weight |-> 1], [endpoint |-> "b:80", weight |-> 1]>>}

\* RetryConfig values: every retry condition on, and a policy that retries
\* nothing
RetryConfigs ==
    {[count |-> 1, retry_on_statuses |-> {503},
      retry_on_connect_failure |-> TRUE, retry_on_timeout |-> TRUE],
     [count |-> 1, retry_on_statuses |-> {},
      retry_on_connect_failure |-> FALSE, retry_on_timeout |-> FALSE]}

\* ClusterConfig: nodes, retry (Option) and timeout.send + timeout.read in
\* whole seconds (budget)
ClusterConfigs ==
    [nodes : NodeLists,
     retry : {None} \cup {Some(r) : r \in RetryConfigs},
     budget : 1..MaxBudget,
     lb_type : {"roundrobin"}]

\* a cluster value used where no cluster is exercised
NoCluster == [nodes |-> << >>, retry |-> None, budget |-> 0, lb_type |-> "roundrobin"]

\* statuses an upstream node answers with
UpstreamStatuses == {200, 503}

\* result of tokio::time::timeout(per_attempt_timeout, client.request(..))
NoOutcome == [kind |-> "none", status |-> 0]

Outcomes ==
    {[kind |-> "resp", status |-> st] : st \in UpstreamStatuses}
        \cup {[kind |-> "connect_error", status |-> 0], [kind |-> "timeout", status |-> 0]}

\* what one request has done to gateway_http_requests_total (increments),
\* gateway_http_request_duration_seconds (observations) and
\* gateway_http_requests_in_flight (increments minus decrements)
NoMetrics == [requests_total |-> 0, request_duration |-> 0, in_flight |-> 0]

\* locals of one request in phase_upstream (and history of the request)
NewReq ==
    [attempt |-> 0,          \* the loop variable of `for attempt in 0..=max_retries`
     tried_addrs |-> {},
     last_error |-> None,    \* Option<Response>: the status of the stored error response
     deadline |-> 0,
     remaining |-> 0,
     skip |-> 0,             \* the loop variable of select_healthy_node
     addr |-> "",            \* the candidate / selected node
     upstream_start |-> 0,
     outcome |-> NoOutcome,  \* result of the attempt
     status |-> 0,           \* status of the response given to the client
     picked_healthy |-> TRUE, \* history: is_node_healthy(addr) when addr was selected
     exit |-> "",            \* history: the return statement taken
     nattempts |-> 0,        \* history: upstream requests issued
     nretries |-> 0,         \* history: increments of gateway_upstream_retries_total
     all503 |-> TRUE,        \* history: every attempt so far was answered 503
     spent |-> 0,            \* history: wall-clock spent in the attempts so far
     metrics |-> NoMetrics]  \* history: what the request did to the metrics

\* ------------------------------------------------------------------------
\* Load balancers and their shared counters (upstream/loadbalance.rs,
\* upstream/loadbalance/*.rs)
\* ------------------------------------------------------------------------
\* values of ClusterConfig.lb_type
LbTypes == {"roundrobin", "least_request", "peak_ewma"}

\* LoadBalancer::new: the balancer variant created for an lb_type string
LbKind(lb_type) ==
    CASE lb_type \in {"random", "weighted_random"} -> "Random"
      [] lb_type \in {"least_request", "least_conn"} -> "LeastRequest"
      [] lb_type \in {"peak_ewma", "ewma"} -> "PeakEwma"
      [] OTHER -> "RoundRobin"

\* PeakEwmaBalancer::new_default: initial latency 20 ms, alpha 0.2 = 1/5
INITIAL_LATENCY_MS == 20

\* LatencyGuard::drop: the 30 s penalty of a failed request, in ms
PENALTY_LATENCY_MS == 30000

\* start_time.elapsed() of a request that succeeded, in ms
ElapsedSamples == {10}

\* start_time.elapsed() of a guard dropped right after do_select, in ms
SkipElapsedSamples == {0}

\* InstanceWithLatency::update_latency: alpha * new + (1 - alpha) * current
ewma_update(current, new_latency) == (new_latency + 4 * current) \div 5

\* the cells (Arc'ed atomics) an instance list refers to; 0 is "no cell"
CellsOf(insts) ==
    ({insts[i].active : i \in 1..Len(insts)} \cup {insts[i].ewma : i \in 1..Len(insts)}) \ {0}

\* Arc::new: the lowest cell not in use
FreshCell(used) ==
    CHOOSE c \in 1..(Cardinality(used) + 1) :
        c \notin used /\ \A d \in 1..(c - 1) : d \in used

\* h with cell c set to v
heap_put(h, c, v) == [k \in DOMAIN h \cup {c} |-> IF k = c THEN v ELSE h[k]]

\* old.iter().find(|e| e.endpoint() == endpoint): index of the first, or 0
find_existing(old, endpoint) ==
    IF \E j \in 1..Len(old) : old[j].endpoint = endpoint
    THEN CHOOSE j \in 1..Len(old) :
            /\ old[j].endpoint = endpoint
            /\ \A k \in 1..(j - 1) : old[k].endpoint # endpoint
    ELSE 0

\* every instance gets the fresh counter of UpstreamInstance::from, whatever
\* the old list holds
KeepNothing(old, endpoint) == 0

\* the instance of the old list whose counters the new instance takes over
kept_instance(old, endpoint) == find_existing(old, endpoint)

\* one element of the `.map(..)` of update_instances: UpstreamInstance::from
\* (a fresh active_requests), then the counters of the existing instance of
\* the same endpoint (LeastRequest: active_requests; PeakEwma: active_requests
\* and ewma_latency_ns; a new PeakEwma instance starts at the initial latency).
\* The active_requests of a RoundRobin or Random instance is never read or
\* written, so it has no cell here
AddInstance(kind, old, node, acc) ==
    LET j == IF kind \in {"LeastRequest", "PeakEwma"}
             THEN kept_instance(old, node.endpoint) ELSE 0
        c1 == FreshCell(DOMAIN acc.heap)
        h1 == heap_put(acc.heap, c1, 0)
        c2 == FreshCell(DOMAIN h1)
    IN  IF j # 0
        THEN [insts |-> Append(acc.insts, [endpoint |-> node.endpoint, weight |-> node.weight,
                                           active |-> old[j].active, ewma |-> old[j].ewma]),
              heap |-> acc.heap]
        ELSE IF kind = "PeakEwma"
        THEN [insts |-> Append(acc.insts, [endpoint |-> node.endpoint, weight |-> node.weight,
                                           active |-> c1, ewma |-> c2]),
              heap |-> heap_put(h1, c2, INITIAL_LATENCY_MS)]
        ELSE IF kind = "LeastRequest"
        THEN [insts |-> Append(acc.insts, [endpoint |-> node.endpoint, weight |-> node.weight,
                                           active |-> c1, ewma |-> 0]),
              heap |-> h1]
        ELSE [insts |-> Append(acc.insts, [endpoint |-> node.endpoint, weight |-> node.weight,
                                           active |-> 0, ewma |-> 0]),
              heap |-> acc.heap]

\* update_instances of the balancer of `kind` on the loaded list `old`
RECURSIVE BuildInstances(_, _, _, _, _)
BuildInstances(kind, old, nodes, i, h) ==
    IF i = 0 THEN [insts |-> << >>, heap |-> h]
    ELSE AddInstance(kind, old, nodes[i], BuildInstances(kind, old, nodes, i - 1, h))

update_instances(kind, old, nodes, h) == BuildInstances(kind, old, nodes, Len(nodes), h)

\* LoadBalancer::new(lb_type), then update_instances when nodes are configured
NewLb(lb_type, nodes, h) ==
    LET b == update_instances(LbKind(lb_type), << >>, nodes, h) IN
    [lb |-> [kind |-> LbKind(lb_type), instances |-> b.insts], heap |-> b.heap]

\* a request task without a guard
NoGuard ==
    [pc |-> "idle", endpoint |-> "", active |-> 0, ewma |-> 0,
     counted |-> FALSE,   \* RequestGuard._balancer.is_some()
     failed |-> FALSE,    \* LatencyGuard.failed
     current |-> 0,       \* update_latency: the EWMA it loaded
     of_lb |-> FALSE,     \* the guard came from the balancer the cluster has now
     skipped |-> FALSE]   \* history: select_healthy_node skipped the candidate, no request was sent

\* the updater tasks: ClusterStore::upsert (under config_mu) and the
\* discovery poll calling update_discovered_nodes
NoUTask ==
    [config |-> [pc |-> "idle", new_config |-> NoCluster, old |-> << >>],
     discovery |-> [pc |-> "idle", nodes |-> << >>, old |-> << >>,
                    static_nodes |-> << >>,   \* config.nodes of the cluster clone
                    stale |-> FALSE]]         \* the clone's balancer was replaced

\* the cells some Arc still refers to
Reachable(l, g, u) ==
    (CellsOf(l.instances) \cup CellsOf(u.config.old) \cup CellsOf(u.discovery.old)
        \cup {g[t].active : t \in Callers} \cup {g[t].ewma : t \in Callers}) \ {0}

\* the cells without a reference are freed
Gc(h, l, g, u) == [c \in DOMAIN h \cap Reachable(l, g, u) |-> h[c]]

\* Cluster::new: the balancer of the configured type over the static nodes
InitLb(c) ==
    /\ discovered = << >>
    /\ lb = NewLb(c.lb_type, c.nodes, << >>).lb
    /\ heap = NewLb(c.lb_type, c.nodes, << >>).heap
    /\ guard = [t \in Callers |-> NoGuard]
    /\ utask = NoUTask
    /\ nsel = 0
    /\ nupd = 0

\* ------------------------------------------------------------------------
\* Rate limiter (proxy/filter/rate_limit.rs)
\* ------------------------------------------------------------------------
PRECISION == 1000000

GC_EXPIRE_SECS == 300

\* the cap of each map, scaled to the key universe so that one key more
\* than the cap can arrive (100_000 in the source)
MAX_ENTRIES == NumKeys - 1

Keys == 1..NumKeys

Checkers == 1..NumCheckers

\* the steps of the clock: half a window of one second, and GC_EXPIRE_SECS
TickSteps == {500000, GC_EXPIRE_SECS * 1000000}

\* values the instance registry stores into the shared peer count
InstanceCounts == {0, 1, 2}

max2(a, b) == IF a >= b THEN a ELSE b

min2(a, b) == IF a <= b THEN a ELSE b

saturating_sub(a, b) == IF a >= b THEN a - b ELSE 0

\* RateLimitConfig; rate is a whole number of requests per second
CountConfigs ==
    [mode : {"count"}, count : {1, 2}, time_window : {1}, rate : {1}, burst : {1},
     rejected_code : {503}]

ReqConfigs ==
    [mode : {"req"}, count : {1}, time_window : {1}, rate : {1}, burst : {1},
     rejected_code : {503}]

RateLimitConfigs == CountConfigs \cup ReqConfigs

NoRateLimit ==
    [mode |-> "count", count |-> 1, time_window |-> 1, rate |-> 1, burst |-> 1,
     rejected_code |-> 429]

current_instance_count == max2(instance_count, 1)

\* max_count of check_sliding_window
sw_max_count(count, n) == max2(count \div n, 1)

\* max_tokens of check_token_bucket: rate as u64 truncates config.rate / n
tb_max_tokens(rate, burst, n) == ((rate \div n) + max2(burst, 1)) * PRECISION

\* StatusCode::from_u16(rejected_code).unwrap_or(TOO_MANY_REQUESTS)
rejected_status(code) == IF code >= 100 /\ code <= 999 THEN code ELSE 429

NoWindow ==
    [current_count |-> 0, prev_count |-> 0, window_start |-> 0, max_count |-> 0,
     window_us |-> 0, last_access |-> 0, locked |-> 0, wins |-> 0, made_n |-> 0,
     seen |-> 0]

\* the SlidingWindow that or_insert_with builds. History: wins, the requests
\* admitted since window_start last moved; made_n, the peer count read when
\* the window was built; seen, the latest clock reading of a finished check
NewWindow(max_count, window_secs, n) ==
    [current_count |-> 0, prev_count |-> 0, window_start |-> now_us,
     max_count |-> max_count, window_us |-> window_secs * 1000000,
     last_access |-> now_us, locked |-> 0, wins |-> 0, made_n |-> n,
     seen |-> now_us]

\* the Bucket that or_insert_with builds; rate_per_us is rate_num / rate_den
\* requests per second. History: granted, the tokens credited so far; spent,
\* the tokens taken; made_at, the clock when the bucket was built; seen
NewBucket(rate, burst, n) ==
    [tokens |-> tb_max_tokens(rate, burst, n), last_refill |-> now_us,
     rate_num |-> rate, rate_den |-> n,
     max_tokens |-> tb_max_tokens(rate, burst, n),
     last_access |-> now_us, locked |-> 0,
     granted |-> tb_max_tokens(rate, burst, n), spent |-> 0, made_at |-> now_us,
     seen |-> now_us]

NoChk ==
    [pc |-> "idle", key |-> 0, n |-> 0, obj |-> 0, now |-> 0, snap |-> NoWindow,
     ret |-> FALSE, status |-> 0, estimated |-> 0, carried |-> 0, before |-> 0,
     made_n |-> 0]

\* lowest free object id of a map's objects
FreshObj(h) == CHOOSE i \in 1..(Cardinality(DOMAIN h) + 1) : i \notin DOMAIN h

MapPut(m, k, v) == [x \in DOMAIN m \cup {k} |-> IF x = k THEN v ELSE m[x]]

Restrict(m, S) == [x \in S |-> m[x]]

\* the objects some Arc still points to: the map's values and the checks'
LiveObjs(m, c, mode) ==
    {m[k] : k \in DOMAIN m}
        \cup {c[t].obj : t \in {u \in Checkers : c[u].pc # "idle" /\ rl_cfg.mode = mode}}

DropDead(h, live) == Restrict(h, DOMAIN h \cap live)

InitLimiter ==
    /\ instance_count = 1
    /\ now_us = 0
    /\ buckets = << >>
    /\ windows = << >>
    /\ bheap = << >>
    /\ wheap = << >>
    /\ chk = [t \in Checkers |-> NoChk]
    /\ nticks = 0
    /\ nchk = 0
    /\ nset = 0

\* the while-loop of SlidingWindow::try_acquire; once both counts are 0 an
\* iteration only moves window_start, and the remaining ones are taken at once
RECURSIVE advance_windows(_, _)
advance_windows(w, t) ==
    IF saturating_sub(t, w.window_start) >= w.window_us
    THEN IF w.prev_count = 0 /\ w.current_count = 0
         THEN [w EXCEPT !.window_start =
                            @ + w.window_us * (saturating_sub(t, @) \div w.window_us),
                        !.wins = 0]
         ELSE advance_windows([w EXCEPT !.prev_count = w.current_count,
                                        !.current_count = 0,
                                        !.window_start = w.window_start + w.window_us,
                                        !.wins = 0], t)
    ELSE w

\* (prev_count as f64 * weight) as u64 with weight = 1.0 - elapsed / window_us
blended(w, t) ==
    IF w.window_us > 0
    THEN (w.prev_count * (w.window_us - saturating_sub(t, w.window_start))) \div w.window_us
    ELSE 0

\* the body of SlidingWindow::try_acquire under the lock, on the fields w
\* the task read, at its clock reading t
SlidingWindow_try_acquire(w, t) ==
    LET a == advance_windows(w, t)
        f == IF saturating_sub(t, a.window_start) >= a.window_us
             THEN [a EXCEPT !.prev_count = 0] ELSE a
        estimated == blended(f, t) + f.current_count
        ok == estimated < f.max_count
    IN  [w |-> IF ok THEN [f EXCEPT !.current_count = @ + 1] ELSE f,
         ret |-> ok,
         estimated |-> estimated,
         carried |-> blended(f, t),
         before |-> f.current_count,
         advanced |-> a.window_start # w.window_start]

\* the body of Bucket::try_acquire under the lock
Bucket_try_acquire(b, t) ==
    LET elapsed == saturating_sub(t, b.last_refill)
        refill == (elapsed * b.rate_num) \div b.rate_den
        r == IF elapsed > 0
             THEN [b EXCEPT !.tokens = min2(b.tokens + refill, b.max_tokens),
                            !.last_refill = t]
             ELSE b
        ok == r.tokens >= PRECISION
    IN  [b |-> IF ok THEN [r EXCEPT !.tokens = @ - PRECISION] ELSE r,
         ret |-> ok,
         credited |-> r.tokens - b.tokens]

\* the tokio Mutex of a bucket or window: lock().await returns when it is free
LockNeverHeld(locked) == TRUE

lock_free(locked) == locked = 0

nonRlVars == <<brkVars, upVars, routeVars, clVars, xVars>>

\* RateLimiter::check up to the Arc of the key's window or bucket: the load
\* of the peer count, then the map's get, or its entry().or_insert_with.
\* A new check runs as the lowest idle task (the tasks are interchangeable).
RlLookup(t, key) ==
    /\ chk[t].pc = "idle"
    /\ \A u \in Checkers : u < t => chk[u].pc # "idle"
    /\ nchk < MaxChecks
    /\ LET n == current_instance_count
       IN  IF rl_cfg.mode = "count"
           THEN LET mk == key \notin DOMAIN windows
                    o == IF mk THEN FreshObj(wheap) ELSE windows[key]
                    max_count == sw_max_count(rl_cfg.count, n)
                IN  /\ windows' = IF mk THEN MapPut(windows, key, o) ELSE windows
                    /\ wheap' = IF mk
                                THEN MapPut(wheap, o,
                                            NewWindow(max_count, rl_cfg.time_window, n))
                                ELSE wheap
                    /\ chk' = [chk EXCEPT ![t] = [NoChk EXCEPT !.pc = "got", !.key = key,
                                                               !.n = n, !.obj = o]]
                    /\ UNCHANGED <<buckets, bheap>>
           ELSE LET mk == key \notin DOMAIN buckets
                    o == IF mk THEN FreshObj(bheap) ELSE buckets[key]
                IN  /\ buckets' = IF mk THEN MapPut(buckets, key, o) ELSE buckets
                    /\ bheap' = IF mk
                                THEN MapPut(bheap, o, NewBucket(rl_cfg.rate, rl_cfg.burst, n))
                                ELSE bheap
                    /\ chk' = [chk EXCEPT ![t] = [NoChk EXCEPT !.pc = "got", !.key = key,
                                                               !.n = n, !.obj = o]]
                    /\ UNCHANGED <<windows, wheap>>
    /\ nchk' = nchk + 1
    /\ UNCHANGED <<nonRlVars, rl_cfg, instance_count, now_us, nticks, nset>>

\* last_access.store(now_us()) and the clock reading that opens try_acquire
RlTouch(t) ==
    /\ chk[t].pc = "got"
    /\ IF rl_cfg.mode = "count"
       THEN /\ wheap' = [wheap EXCEPT ![chk[t].obj].last_access = now_us]
            /\ UNCHANGED bheap
       ELSE /\ bheap' = [bheap EXCEPT ![chk[t].obj].last_access = now_us]
            /\ UNCHANGED wheap
    /\ chk' = [chk EXCEPT ![t].pc = "wait", ![t].now = now_us]
    /\ UNCHANGED <<nonRlVars, rl_cfg, instance_count, now_us, buckets, windows, nticks, nchk, nset>>

\* inner.lock().await returns: the task holds the lock and reads the fields
RlLock(t) ==
    /\ chk[t].pc = "wait"
    /\ IF rl_cfg.mode = "count"
       THEN /\ lock_free(wheap[chk[t].obj].locked)
            /\ wheap' = [wheap EXCEPT ![chk[t].obj].locked = t]
            /\ chk' = [chk EXCEPT ![t].pc = "locked", ![t].snap = wheap[chk[t].obj]]
            /\ UNCHANGED bheap
       ELSE /\ lock_free(bheap[chk[t].obj].locked)
            /\ bheap' = [bheap EXCEPT ![chk[t].obj].locked = t]
            /\ chk' = [chk EXCEPT ![t].pc = "locked", ![t].snap = bheap[chk[t].obj]]
            /\ UNCHANGED wheap
    /\ UNCHANGED <<nonRlVars, rl_cfg, instance_count, now_us, buckets, windows, nticks, nchk, nset>>

\* the rest of try_acquire: the fields are written, the lock is released,
\* the Arc is dropped, and rate_limit_on_request builds its result
RlCommit(t) ==
    /\ chk[t].pc = "locked"
    /\ LET o == chk[t].obj
       IN  IF rl_cfg.mode = "count"
           THEN LET res == SlidingWindow_try_acquire(chk[t].snap, chk[t].now)
                    nw == [res.w EXCEPT
                              !.last_access = wheap[o].last_access,
                              !.locked = 0,
                              !.made_n = wheap[o].made_n,
                              !.seen = max2(wheap[o].seen, chk[t].now),
                              !.wins = (IF res.advanced THEN 0 ELSE wheap[o].wins)
                                           + (IF res.ret THEN 1 ELSE 0)]
                    c2 == [chk EXCEPT ![t].pc = "done", ![t].obj = 0,
                                      ![t].snap = NoWindow,
                                      ![t].ret = res.ret,
                                      ![t].status = IF res.ret THEN 0
                                                    ELSE rejected_status(rl_cfg.rejected_code),
                                      ![t].estimated = res.estimated,
                                      ![t].carried = res.carried,
                                      ![t].before = res.before,
                                      ![t].made_n = nw.made_n]
                IN  /\ chk' = c2
                    /\ wheap' = DropDead([wheap EXCEPT ![o] = nw],
                                         LiveObjs(windows, c2, "count"))
                    /\ UNCHANGED bheap
           ELSE LET res == Bucket_try_acquire(chk[t].snap, chk[t].now)
                    nb == [res.b EXCEPT
                              !.last_access = bheap[o].last_access,
                              !.locked = 0,
                              !.made_at = bheap[o].made_at,
                              !.seen = max2(bheap[o].seen, chk[t].now),
                              !.granted = bheap[o].granted + res.credited,
                              !.spent = bheap[o].spent
                                            + (IF res.ret THEN PRECISION ELSE 0)]
                    c2 == [chk EXCEPT ![t].pc = "done", ![t].obj = 0,
                                      ![t].snap = NoWindow,
                                      ![t].ret = res.ret,
                                      ![t].status = IF res.ret THEN 0
                                                    ELSE rejected_status(rl_cfg.rejected_code)]
                IN  /\ chk' = c2
                    /\ bheap' = DropDead([bheap EXCEPT ![o] = nb],
                                         LiveObjs(buckets, c2, "req"))
                    /\ UNCHANGED wheap
    /\ UNCHANGED <<nonRlVars, rl_cfg, instance_count, now_us, buckets, windows, nticks, nchk, nset>>

\* the filter chain goes on, or the rejection is sent
RlReturn(t) ==
    /\ chk[t].pc = "done"
    /\ chk' = [chk EXCEPT ![t] = NoChk]
    /\ UNCHANGED <<nonRlVars, rl_cfg, instance_count, now_us, buckets, windows, bheap,
                   wheap, nticks, nchk, nset>>

RlTick(d) ==
    /\ nticks < MaxTicks
    /\ now_us' = now_us + d
    /\ nticks' = nticks + 1
    /\ UNCHANGED <<nonRlVars, rl_cfg, instance_count, buckets, windows, bheap, wheap,
                   chk, nchk, nset>>

\* InstanceRegistry::watch_instances_once stores the recounted peers
SetInstanceCount(m) ==
    /\ m # instance_count
    /\ nset < MaxScales
    /\ instance_count' = m
    /\ nset' = nset + 1
    /\ UNCHANGED <<nonRlVars, rl_cfg, now_us, buckets, windows, bheap, wheap, chk,
                   nticks, nchk>>

entry_age(h, o) == saturating_sub(now_us, h[o].last_access)

\* the keys retain() keeps
retained(m, h) == {k \in DOMAIN m : entry_age(h, m[k]) < GC_EXPIRE_SECS * 1000000}

\* force_evict_buckets / force_evict_windows: the sets of `overflow` oldest
\* keys (sort_unstable_by leaves the order of equal ages open)
force_evicted(S, m, h) ==
    {E \in SUBSET S :
        /\ Cardinality(E) = saturating_sub(Cardinality(S), MAX_ENTRIES)
        /\ \A k \in E, j \in S \ E : entry_age(h, m[k]) >= entry_age(h, m[j])}

\* one run of the GC task: evict_stale on both maps
EvictStale ==
    /\ \E EB \in force_evicted(retained(buckets, bheap), buckets, bheap),
          EW \in force_evicted(retained(windows, wheap), windows, wheap) :
          /\ buckets' = Restrict(buckets, retained(buckets, bheap) \ EB)
          /\ windows' = Restrict(windows, retained(windows, wheap) \ EW)
          /\ bheap' = DropDead(bheap, LiveObjs(buckets', chk, "req"))
          /\ wheap' = DropDead(wheap, LiveObjs(windows', chk, "count"))
    /\ buckets' # buckets \/ windows' # windows
    /\ UNCHANGED <<nonRlVars, rl_cfg, instance_count, now_us, chk, nticks, nchk, nset>>

\* ------------------------------------------------------------------------
\* The route's limiter across route-table rebuilds (proxy/filter/mod.rs,
\* routing/radix_tree.rs, server/state.rs). The limiter variables above are
\* the RateLimiter of the rate-limit filter of the route in the installed
\* route table; rlim follows every RateLimiter built for the route
\* ------------------------------------------------------------------------

\* the first route table holds the route: build_route_filters has built one
\* limiter and start_gc has spawned its GC task
OneLimiter ==
    [cur |-> 1,            \* the limiter of the route's filter in the installed table (0: the table has no such route)
     made |-> 1,           \* limiters built so far
     gc |-> {1},           \* the limiters whose GC task is running
     retired |-> << >>,    \* limiter -> its maps, for the limiters no route table refers to
     nrebuild |-> 0,       \* number of rebuilds so far
     exhausted |-> {},     \* history: the keys the limiter of the previous table would reject at time `at`
     at |-> 0]

InitRb == rlim = OneLimiter

\* the keys a check at time t would reject, the limiter's state left as it is
exhausted_keys(t) ==
    IF rl_cfg.mode = "count"
    THEN {k \in DOMAIN windows : ~SlidingWindow_try_acquire(wheap[windows[k]], t).ret}
    ELSE {k \in DOMAIN buckets : ~Bucket_try_acquire(bheap[buckets[k]], t).ret}

\* upsert_domain / delete_domain of some domain under config_mu, then
\* rebuild_table: RouteTable::new inserts every route of the new domain list,
\* RadixTree::insert calls build_route_filters, which builds a RateLimiter
\* with empty maps for the route and spawns its GC task; route_table.store
\* drops the old table. keep: the new domain list still holds the route, its
\* rate_limit unchanged. The old limiter stays with its GC task
RebuildTable(keep) ==
    /\ rlim.nrebuild < MaxRebuilds
    /\ keep \/ rlim.cur # 0
    /\ config_mu = 0
    /\ \A t \in Checkers : chk[t].pc = "idle"
    /\ LET id == rlim.made + 1
           old == [buckets |-> buckets, windows |-> windows,
                   bheap |-> bheap, wheap |-> wheap]
           ret == IF rlim.cur # 0 THEN MapPut(rlim.retired, rlim.cur, old)
                  ELSE rlim.retired
           exh == IF keep /\ rlim.cur # 0
                  THEN exhausted_keys(now_us)
                          \cup (IF rlim.at = now_us THEN rlim.exhausted ELSE {})
                  ELSE {}
       IN  rlim' = IF keep
                   THEN [cur |-> id, made |-> id, gc |-> rlim.gc \cup {id},
                         retired |-> ret, nrebuild |-> rlim.nrebuild + 1,
                         exhausted |-> exh, at |-> now_us]
                   ELSE [rlim EXCEPT !.cur = 0, !.retired = ret,
                                     !.nrebuild = @ + 1,
                                     !.exhausted = {}, !.at = now_us]
    /\ buckets' = << >>
    /\ windows' = << >>
    /\ bheap' = << >>
    /\ wheap' = << >>
    /\ UNCHANGED <<brkVars, upVars, routeVars, clVars, bgVars, fnVars, hcVars,
                   rl_cfg, instance_count, now_us, chk, nticks, nchk, nset>>

\* the objects of heap h the map m refers to
MapObjs(m, h) == Restrict(h, DOMAIN h \cap {m[k] : k \in DOMAIN m})

\* one run of the GC task of a limiter of an earlier route table
GcRetired(id) ==
    /\ id \in DOMAIN rlim.retired
    /\ LET r == rlim.retired[id] IN
       \E EB \in force_evicted(retained(r.buckets, r.bheap), r.buckets, r.bheap),
          EW \in force_evicted(retained(r.windows, r.wheap), r.windows, r.wheap) :
          LET nb == Restrict(r.buckets, retained(r.buckets, r.bheap) \ EB)
              nw == Restrict(r.windows, retained(r.windows, r.wheap) \ EW)
          IN  /\ nb # r.buckets \/ nw # r.windows
              /\ rlim' = [rlim EXCEPT !.retired[id] =
                             [buckets |-> nb, windows |-> nw,
                              bheap |-> MapObjs(nb, r.bheap),
                              wheap |-> MapObjs(nw, r.wheap)]]
    /\ UNCHANGED <<brkVars, upVars, routeVars, clVars, bgVars, fnVars, hcVars, rlVars>>

\* ------------------------------------------------------------------------
\* Circuit breaker (upstream/circuit_breaker.rs)
\* ------------------------------------------------------------------------

BreakerConfigs ==
    [failure_threshold : 1..MaxThreshold,
     success_threshold : 1..MaxThreshold,
     open_duration_secs : 0..MaxOpenDuration]

NewNodeBreaker(config) ==
    [state |-> STATE_CLOSED,
     consecutive_failures |-> 0,
     half_open_successes |-> 0,
     opened_at |-> None,
     config |-> config]

\* get_or_create: the entry of node_key, inserted with `config` when absent
get_or_create(reg, node_key, config) ==
    IF node_key \in DOMAIN reg
    THEN reg
    ELSE [k \in DOMAIN reg \cup {node_key} |->
            IF k = node_key THEN NewNodeBreaker(config) ELSE reg[k]]

\* at.elapsed() >= Duration::from_secs(open_duration_secs)
Elapsed(at, t, dur) == t - at >= dur

\* history kept per node for the properties
NewHist ==
    [openedGhost |-> None,      \* time of the latest transition into Open
     winsSinceOpen |-> 0,       \* checks that won Open->HalfOpen since that transition
     succSinceHalfOpen |-> 0,   \* record_success calls since the latest entry to HalfOpen
     reopenPending |-> FALSE,   \* a HalfOpen record_failure re-opened and no check has since won
     probeHolder |-> 0,         \* the caller that won the probe and has not yet recorded its outcome (0: none)
     failsSinceClose |-> None]  \* record_failure calls in progress at, or begun after, the latest HalfOpen->Closed store

HistOf(n) == IF n \in DOMAIN hist THEN hist[n] ELSE NewHist

\* the history counts failures up to MaxThreshold
CapFails(k) == IF k > MaxThreshold THEN MaxThreshold ELSE k

\* the record_failure calls in progress on node n
FailuresInProgress(n) ==
    {u \in Callers : bop[u] = "record_failure" /\ bnode[u] = n /\ pc[u] # cont[u]}

SetHist(n, h) ==
    [k \in DOMAIN hist \cup {n} |-> IF k = n THEN h ELSE hist[k]]

Br(t) == breakers[bnode[t]]

SetBr(t, b) == [breakers EXCEPT ![bnode[t]] = b]

\* the call returns value v to the caller
Return(t, v) ==
    /\ pc' = [pc EXCEPT ![t] = cont[t]]
    /\ bret' = [bret EXCEPT ![t] = v]

Goto(t, l) ==
    /\ pc' = [pc EXCEPT ![t] = l]
    /\ UNCHANGED bret

\* CircuitBreakerRegistry::{check, record_success, record_failure}: get_or_create,
\* then the NodeBreaker method
EnterCall(t, op, node_key, k) ==
    /\ IsSome(cb_cfg)
    /\ breakers' = get_or_create(breakers, node_key, Unwrap(cb_cfg))
    /\ bnode' = [bnode EXCEPT ![t] = node_key]
    /\ bop' = [bop EXCEPT ![t] = op]
    /\ cont' = [cont EXCEPT ![t] = k]
    /\ pc' = [pc EXCEPT ![t] = op]
    /\ hist' = SetHist(node_key,
          LET h == HistOf(node_key) IN
          LET g == IF op = "record_failure" /\ IsSome(h.failsSinceClose)
                    THEN [h EXCEPT !.failsSinceClose = Some(CapFails(Unwrap(@) + 1))]
                    ELSE h IN
          IF op # "check" /\ h.probeHolder = t
          THEN [g EXCEPT !.probeHolder = 0]
          ELSE g)
    /\ cstale' = [cstale EXCEPT ![t] = FALSE]
    /\ cprobe' = [cprobe EXCEPT ![t] = FALSE]

\* NodeBreaker::check, the state load and the Closed / HalfOpen arms
CheckLoad(t) ==
    /\ pc[t] = "check"
    /\ LET s == Br(t).state IN
       /\ IF s = STATE_OPEN THEN Goto(t, "check_lock")
          ELSE IF s = STATE_HALF_OPEN THEN Return(t, "Probe")
          ELSE Return(t, "Allowed")
       /\ cprobe' = [cprobe EXCEPT ![t] =
             s = STATE_HALF_OPEN /\ HistOf(bnode[t]).probeHolder \notin {0, t}]
    /\ UNCHANGED <<extVars, routeVars, upVars, now, cb_cfg, breakers, cont, bnode, bop, hist, cstale, streak>>

\* NodeBreaker::check, Open arm: opened_at is read under its mutex
CheckLock(t) ==
    /\ pc[t] = "check_lock"
    /\ LET b == Br(t) IN
       IF IsSome(b.opened_at)
          /\ Elapsed(Unwrap(b.opened_at), now, b.config.open_duration_secs)
       THEN Goto(t, "check_cas")
       ELSE Return(t, "Rejected")
    /\ UNCHANGED <<extVars, routeVars, upVars, now, cb_cfg, breakers, cont, bnode, bop, hist, cstale, streak, cprobe>>

\* a compare_exchange that ignores the expected value
CasAlways(cur, expected) == TRUE

\* compare_exchange(expected, new) on the state byte: TRUE when it succeeded
CasOk(cur, expected) == cur = expected

\* NodeBreaker::check, Open arm: compare_exchange(STATE_OPEN, STATE_HALF_OPEN)
CheckCas(t) ==
    /\ pc[t] = "check_cas"
    /\ LET b == Br(t)
           h == HistOf(bnode[t]) IN
       IF CasOk(b.state, STATE_OPEN)
       THEN /\ breakers' = SetBr(t, [b EXCEPT !.state = STATE_HALF_OPEN])
            /\ hist' = SetHist(bnode[t],
                  [h EXCEPT !.winsSinceOpen = IF @ < 2 THEN @ + 1 ELSE @,
                            !.succSinceHalfOpen = 0,
                            !.reopenPending = FALSE,
                            !.probeHolder = t])
            /\ Goto(t, "check_reset")
       ELSE /\ UNCHANGED <<breakers, hist>>
            /\ Return(t, "Rejected")
    /\ UNCHANGED <<extVars, routeVars, upVars, now, cb_cfg, cont, bnode, bop, cstale, streak, cprobe>>

\* NodeBreaker::check, the winner: half_open_successes.store(0), return Probe
CheckReset(t) ==
    /\ pc[t] = "check_reset"
    /\ breakers' = SetBr(t, [Br(t) EXCEPT !.half_open_successes = 0])
    /\ Return(t, "Probe")
    /\ UNCHANGED <<extVars, routeVars, upVars, now, cb_cfg, cont, bnode, bop, hist, cstale, streak, cprobe>>

\* NodeBreaker::record_success, the state load
RsLoad(t) ==
    /\ pc[t] = "record_success"
    /\ LET s == Br(t).state IN
       IF s = STATE_CLOSED THEN Goto(t, "rs_closed")
       ELSE IF s = STATE_HALF_OPEN THEN Goto(t, "rs_inc")
       ELSE Return(t, "Unit")
    /\ UNCHANGED <<extVars, routeVars, upVars, now, cb_cfg, breakers, cont, bnode, bop, hist, cstale, streak, cprobe>>

\* the Closed arm without the reset of consecutive_failures
RsClosedNoReset(t) ==
    /\ pc[t] = "rs_closed"
    /\ Return(t, "Unit")
    /\ UNCHANGED <<extVars, routeVars, upVars, now, cb_cfg, breakers, cont, bnode, bop, hist, cstale, streak, cprobe>>

\* NodeBreaker::record_success, Closed arm: consecutive_failures.store(0)
RsClosed(t) ==
    /\ pc[t] = "rs_closed"
    /\ breakers' = SetBr(t, [Br(t) EXCEPT !.consecutive_failures = 0])
    /\ Return(t, "Unit")
    /\ UNCHANGED <<extVars, routeVars, upVars, now, cb_cfg, cont, bnode, bop, hist, cstale, streak, cprobe>>

\* NodeBreaker::record_success, HalfOpen arm: fetch_add and the threshold test
RsInc(t) ==
    /\ pc[t] = "rs_inc"
    /\ LET b == Br(t)
           h == HistOf(bnode[t])
           count == b.half_open_successes + 1 IN
       /\ breakers' = SetBr(t, [b EXCEPT !.half_open_successes = count])
       /\ hist' = SetHist(bnode[t],
             [h EXCEPT !.succSinceHalfOpen = IF @ <= MaxThreshold THEN @ + 1 ELSE @])
       /\ IF count >= b.config.success_threshold
          THEN Goto(t, "rs_store")
          ELSE Return(t, "Unit")
    /\ UNCHANGED <<extVars, routeVars, upVars, now, cb_cfg, cont, bnode, bop, cstale, streak, cprobe>>

\* NodeBreaker::record_success, HalfOpen arm: state.store(STATE_CLOSED)
RsStore(t) ==
    /\ pc[t] = "rs_store"
    /\ breakers' = SetBr(t, [Br(t) EXCEPT !.state = STATE_CLOSED])
    /\ hist' = IF Br(t).state = STATE_HALF_OPEN
               THEN SetHist(bnode[t], [HistOf(bnode[t]) EXCEPT !.failsSinceClose =
                       Some(CapFails(Cardinality(FailuresInProgress(bnode[t]))))])
               ELSE hist
    /\ Goto(t, "rs_reset")
    /\ UNCHANGED <<extVars, routeVars, upVars, now, cb_cfg, cont, bnode, bop, cstale, streak, cprobe>>

\* NodeBreaker::record_success, HalfOpen arm: consecutive_failures.store(0)
RsReset(t) ==
    /\ pc[t] = "rs_reset"
    /\ breakers' = SetBr(t, [Br(t) EXCEPT !.consecutive_failures = 0])
    /\ Return(t, "Closed")
    /\ UNCHANGED <<extVars, routeVars, upVars, now, cb_cfg, cont, bnode, bop, hist, cstale, streak, cprobe>>

\* NodeBreaker::record_failure, the state load
RfLoad(t) ==
    /\ pc[t] = "record_failure"
    /\ LET s == Br(t).state IN
       IF s = STATE_CLOSED THEN Goto(t, "rf_inc")
       ELSE IF s = STATE_HALF_OPEN THEN Goto(t, "rf_half_store")
       ELSE Return(t, "Unit")
    /\ UNCHANGED <<extVars, routeVars, upVars, now, cb_cfg, breakers, cont, bnode, bop, hist, cstale, streak, cprobe>>

\* NodeBreaker::record_failure, Closed arm: fetch_add and the threshold test
RfInc(t) ==
    /\ pc[t] = "rf_inc"
    /\ LET b == Br(t)
           count == b.consecutive_failures + 1 IN
       /\ breakers' = SetBr(t, [b EXCEPT !.consecutive_failures = count])
       /\ IF count >= b.config.failure_threshold
          THEN Goto(t, "rf_store")
          ELSE Return(t, "Unit")
    /\ UNCHANGED <<extVars, routeVars, upVars, now, cb_cfg, cont, bnode, bop, hist, cstale, streak, cprobe>>

\* history of a state.store(STATE_OPEN): a transition into Open when the
\* state was not Open before
HistOpen(t, fromHalfOpen) ==
    LET b == Br(t)
        h == HistOf(bnode[t]) IN
    IF b.state = STATE_OPEN
    THEN [h EXCEPT !.reopenPending = @ \/ fromHalfOpen]
    ELSE [h EXCEPT !.openedGhost = Some(now),
                   !.winsSinceOpen = 0,
                   !.reopenPending = @ \/ fromHalfOpen,
                   !.failsSinceClose = None]

\* history of a state.store(STATE_OPEN): the checks in progress on the node
\* began before this transition into Open
StaleOpen(t) ==
    IF Br(t).state = STATE_OPEN
    THEN cstale
    ELSE [u \in Callers |->
            cstale[u] \/ (bop[u] = "check" /\ bnode[u] = bnode[t] /\ pc[u] # cont[u])]

\* NodeBreaker::record_failure, Closed arm: state.store(STATE_OPEN)
RfStore(t) ==
    /\ pc[t] = "rf_store"
    /\ breakers' = SetBr(t, [Br(t) EXCEPT !.state = STATE_OPEN])
    /\ hist' = SetHist(bnode[t], HistOpen(t, FALSE))
    /\ cstale' = StaleOpen(t)
    /\ Goto(t, "rf_at")
    /\ UNCHANGED <<extVars, routeVars, upVars, now, cb_cfg, cont, bnode, bop, streak, cprobe>>

\* NodeBreaker::record_failure, Closed arm: *opened_at = Some(Instant::now())
RfAt(t) ==
    /\ pc[t] = "rf_at"
    /\ breakers' = SetBr(t, [Br(t) EXCEPT !.opened_at = Some(now)])
    /\ Return(t, "Opened")
    /\ UNCHANGED <<extVars, routeVars, upVars, now, cb_cfg, cont, bnode, bop, hist, cstale, streak, cprobe>>

\* NodeBreaker::record_failure, HalfOpen arm: state.store(STATE_OPEN)
RfHalfStore(t) ==
    /\ pc[t] = "rf_half_store"
    /\ breakers' = SetBr(t, [Br(t) EXCEPT !.state = STATE_OPEN])
    /\ hist' = SetHist(bnode[t], HistOpen(t, TRUE))
    /\ cstale' = StaleOpen(t)
    /\ Goto(t, "rf_half_at")
    /\ UNCHANGED <<extVars, routeVars, upVars, now, cb_cfg, cont, bnode, bop, streak, cprobe>>

\* NodeBreaker::record_failure, HalfOpen arm: *opened_at = Some(Instant::now())
RfHalfAt(t) ==
    /\ pc[t] = "rf_half_at"
    /\ breakers' = SetBr(t, [Br(t) EXCEPT !.opened_at = Some(now)])
    /\ Goto(t, "rf_half_reset")
    /\ UNCHANGED <<extVars, routeVars, upVars, now, cb_cfg, cont, bnode, bop, hist, cstale, streak, cprobe>>

\* NodeBreaker::record_failure, HalfOpen arm: half_open_successes.store(0)
RfHalfReset(t) ==
    /\ pc[t] = "rf_half_reset"
    /\ breakers' = SetBr(t, [Br(t) EXCEPT !.half_open_successes = 0])
    /\ Return(t, "Reopened")
    /\ UNCHANGED <<extVars, routeVars, upVars, now, cb_cfg, cont, bnode, bop, hist, cstale, streak, cprobe>>

\* one atomic step of a breaker call in progress
BreakerStep(t) ==
    \/ CheckLoad(t)
    \/ CheckLock(t)
    \/ CheckCas(t)
    \/ CheckReset(t)
    \/ RsLoad(t)
    \/ RsClosed(t)
    \/ RsInc(t)
    \/ RsStore(t)
    \/ RsReset(t)
    \/ RfLoad(t)
    \/ RfInc(t)
    \/ RfStore(t)
    \/ RfAt(t)
    \/ RfHalfStore(t)
    \/ RfHalfAt(t)
    \/ RfHalfReset(t)

\* the clock advances
Tick ==
    /\ now < MaxTime
    /\ now' = now + 1
    /\ UNCHANGED <<extVars, routeVars, upVars, cb_cfg, breakers, pc, cont, bnode, bop, bret, hist, cstale, streak, cprobe>>

\* ------------------------------------------------------------------------
\* The route table in full: hosts and URIs as sequences of characters and
\* path tokens, the compressed radix tree, the method and header filters
\* (routing/matcher.rs, routing/radix_tree.rs)
\* ------------------------------------------------------------------------
Reverse(s) == [i \in 1..Len(s) |-> s[Len(s) + 1 - i]]

\* str::to_ascii_lowercase, character by character
lower_char(c) == CASE c = "A" -> "a" [] c = "B" -> "b" [] c = "X" -> "x" [] OTHER -> c

to_ascii_lowercase(s) == [i \in 1..Len(s) |-> lower_char(s[i])]

eq_ignore_ascii_case(a, b) == to_ascii_lowercase(a) = to_ascii_lowercase(b)

\* str::to_uppercase of a method name
to_uppercase(m) == CASE m = "get" -> "GET" [] m = "post" -> "POST" [] OTHER -> m

\* s.split(sep).next(): the part before the first separator
RECURSIVE before_first(_, _)
before_first(s, sep) ==
    IF s = << >> \/ Head(s) = sep THEN << >> ELSE <<Head(s)>> \o before_first(Tail(s), sep)

\* s.trim_start_matches('/')
RECURSIVE trim_start_slashes(_)
trim_start_slashes(s) ==
    IF s # << >> /\ Head(s) = "/" THEN trim_start_slashes(Tail(s)) ELSE s

\* s.split('/').collect(): the parts between the slashes, empty parts kept
RECURSIVE split_slash(_)
split_slash(s) ==
    LET part == before_first(s, "/")
    IN  IF Len(part) = Len(s) THEN <<part>>
        ELSE <<part>> \o split_slash(SubSeq(s, Len(part) + 2, Len(s)))

\* parse_uri_segments: the segments of a route's uri and whether it ends in "*"
parse_uri_segments(uri) ==
    LET trimmed == trim_start_slashes(uri)
    IN  IF trimmed = << >> \/ trimmed = <<"*">>
        THEN [segments |-> << >>, is_wildcard |-> trimmed = <<"*">>]
        ELSE LET parts == split_slash(trimmed)
             IN  IF parts[Len(parts)] = <<"*">>
                 THEN [segments |-> SubSeq(parts, 1, Len(parts) - 1), is_wildcard |-> TRUE]
                 ELSE [segments |-> parts, is_wildcard |-> FALSE]

\* split_uri_segments: the segments of a request uri, the query cut off
split_uri_segments(uri) ==
    LET trimmed == trim_start_slashes(before_first(uri, "?"))
    IN  IF trimmed = << >> THEN << >> ELSE split_slash(trimmed)

\* Node::new
NodeNew(segments) ==
    [segments |-> segments, children |-> << >>, exact_routes |-> << >>, wildcard_routes |-> << >>]

\* push the route onto the node's wildcard_routes or exact_routes
attach(node, route, is_wildcard) ==
    IF is_wildcard THEN [node EXCEPT !.wildcard_routes = Append(@, route)]
    ELSE [node EXCEPT !.exact_routes = Append(@, route)]

RECURSIVE common_prefix_len(_, _)
common_prefix_len(a, b) ==
    IF a # << >> /\ b # << >> /\ Head(a) = Head(b)
    THEN 1 + common_prefix_len(Tail(a), Tail(b)) ELSE 0

RECURSIVE insert_recursive(_, _, _, _, _)
RECURSIVE split_and_insert(_, _, _, _, _, _)
insert_recursive(node, segments, offset, route, is_wildcard) ==
    LET remaining == SubSeq(segments, offset + 1, Len(segments))
    IN  IF remaining = << >> THEN attach(node, route, is_wildcard)
        ELSE LET first == remaining[1]
             IN  IF first \in DOMAIN node.children
                 THEN LET child == node.children[first]
                          common == common_prefix_len(child.segments, remaining)
                      IN  IF common = Len(child.segments)
                          THEN [node EXCEPT !.children[first] =
                                    insert_recursive(child, segments, offset + common, route, is_wildcard)]
                          ELSE [node EXCEPT !.children[first] =
                                    split_and_insert(child, common, segments, offset, route, is_wildcard)]
                 ELSE [node EXCEPT !.children =
                          MapPut(@, first, attach(NodeNew(remaining), route, is_wildcard))]

split_and_insert(child, common_len, segments, offset, route, is_wildcard) ==
    LET old_suffix == SubSeq(child.segments, common_len + 1, Len(child.segments))
        old_node == [child EXCEPT !.segments = old_suffix]
        truncated == [NodeNew(SubSeq(child.segments, 1, common_len))
                        EXCEPT !.children = MapPut(<< >>, old_suffix[1], old_node)]
        new_remaining == SubSeq(segments, offset + common_len + 1, Len(segments))
    IN  IF new_remaining = << >> THEN attach(truncated, route, is_wildcard)
        ELSE LET new_first == new_remaining[1]
             IN  IF new_first \in DOMAIN truncated.children
                 THEN [truncated EXCEPT !.children[new_first] =
                          insert_recursive(@, segments, offset + common_len, route, is_wildcard)]
                 ELSE [truncated EXCEPT !.children =
                          MapPut(@, new_first, attach(NodeNew(new_remaining), route, is_wildcard))]

\* RadixTree::insert: the route compiled (methods upper-cased), then
\* inserted at the segments of its uri
RadixTree_insert(root, config) ==
    LET compiled == [config EXCEPT !.methods = {to_uppercase(m) : m \in config.methods}]
        parsed == parse_uri_segments(config.uri)
    IN  insert_recursive(root, parsed.segments, 0, compiled, parsed.is_wildcard)

\* a tree with the routes of `cfgs` inserted in order
RECURSIVE tree_of(_, _)
tree_of(root, cfgs) ==
    IF cfgs = << >> THEN root ELSE tree_of(RadixTree_insert(root, Head(cfgs)), Tail(cfgs))

\* MatchResult::Wildcard(candidates) or MatchResult::None
ShallowestFirst(stack) ==
    IF stack = << >> THEN [kind |-> "None", exact |-> << >>, wildcards |-> << >>]
    ELSE [kind |-> "Wildcard", exact |-> << >>, wildcards |-> stack]

wildcard_result(stack) ==
    IF stack = << >> THEN [kind |-> "None", exact |-> << >>, wildcards |-> << >>]
    ELSE [kind |-> "Wildcard", exact |-> << >>, wildcards |-> Reverse(stack)]

RECURSIVE match_recursive(_, _, _, _)
match_recursive(node, segments, offset, wildcard_stack) ==
    LET stack == IF node.wildcard_routes # << >>
                 THEN Append(wildcard_stack, node.wildcard_routes) ELSE wildcard_stack
        remaining == SubSeq(segments, offset + 1, Len(segments))
    IN  IF remaining = << >>
        THEN IF node.exact_routes # << >>
             THEN [kind |-> "Exact", exact |-> node.exact_routes, wildcards |-> Reverse(stack)]
             ELSE wildcard_result(stack)
        ELSE IF /\ remaining[1] \in DOMAIN node.children
                /\ Len(remaining) >= Len(node.children[remaining[1]].segments)
                /\ node.children[remaining[1]].segments
                        = SubSeq(remaining, 1, Len(node.children[remaining[1]].segments))
             THEN match_recursive(node.children[remaining[1]], segments,
                                  offset + Len(node.children[remaining[1]].segments), stack)
             ELSE wildcard_result(stack)

\* RadixTree::match_uri
match_uri(root, uri) == match_recursive(root, split_uri_segments(uri), 0, << >>)

\* the method filter and the header filter of best_route_from; the modelled
\* header matchers are of kind "present"
passes_filters(route, method_upper, headers) ==
    /\ route.methods = {} \/ method_upper \in route.methods
    /\ route.headers \subseteq headers

\* best_route_from: the passing route of the highest priority, the earlier
\* one on equal priority
RECURSIVE best_route_from(_, _, _, _)
best_route_from(routes, method_upper, headers, best) ==
    IF routes = << >> THEN best
    ELSE LET route == Head(routes)
             next == IF ~passes_filters(route, method_upper, headers) THEN best
                     ELSE IF IsSome(best) /\ route.priority <= Unwrap(best).priority THEN best
                     ELSE Some(route)
         IN  best_route_from(Tail(routes), method_upper, headers, next)

\* the loop over the wildcard levels, deepest first
RECURSIVE first_level_match(_, _, _)
first_level_match(levels, method_upper, headers) ==
    IF levels = << >> THEN None
    ELSE LET r == best_route_from(Head(levels), method_upper, headers, None)
         IN  IF IsSome(r) THEN r ELSE first_level_match(Tail(levels), method_upper, headers)

\* match_in_tree of matcher.rs on a radix tree
radix_match_in_tree(root, uri, method_upper, headers) ==
    LET m == match_uri(root, uri)
        exact == best_route_from(m.exact, method_upper, headers, None)
    IN  IF m.kind = "Exact" /\ IsSome(exact) THEN exact
        ELSE first_level_match(m.wildcards, method_upper, headers)

contains_star(host) == \E i \in 1..Len(host) : host[i] = "*"

\* host_matches: "*suffix", "prefix*", else equality ignoring case
host_matches(req_host, pattern) ==
    IF pattern # << >> /\ Head(pattern) = "*"
    THEN LET suffix == Tail(pattern)
         IN  /\ Len(req_host) >= Len(suffix)
             /\ eq_ignore_ascii_case(SubSeq(req_host, Len(req_host) - Len(suffix) + 1, Len(req_host)), suffix)
    ELSE IF pattern # << >> /\ pattern[Len(pattern)] = "*"
    THEN LET prefix == SubSeq(pattern, 1, Len(pattern) - 1)
         IN  /\ Len(req_host) >= Len(prefix)
             /\ eq_ignore_ascii_case(SubSeq(req_host, 1, Len(prefix)), prefix)
    ELSE eq_ignore_ascii_case(req_host, pattern)

\* the (host, route) pairs of RouteTable::new in the order of its loops:
\* domains, active routes of the domain, hosts of the domain
RECURSIVE host_routes(_)
host_routes(doms) ==
    IF doms = << >> THEN << >>
    ELSE LET d == Head(doms)
             pairs == [n \in 1..(Len(d.routes) * Len(d.hosts)) |->
                         [host |-> d.hosts[((n - 1) % Len(d.hosts)) + 1],
                          route |-> d.routes[((n - 1) \div Len(d.hosts)) + 1]]]
         IN  SelectSeq(pairs, LAMBDA p : p.route.status = 1) \o host_routes(Tail(doms))

\* the routes pushed under one key of a partition, in order
routes_under(pairs, key, is_key(_, _)) ==
    LET sel == SelectSeq(pairs, LAMBDA p : is_key(p.host, key))
    IN  [i \in 1..Len(sel) |-> sel[i].route]

is_default_host(host, key) == host = <<"_">>

is_wildcard_key(host, key) == host # <<"_">> /\ contains_star(host) /\ host = key

is_exact_key(host, key) ==
    host # <<"_">> /\ ~contains_star(host) /\ to_ascii_lowercase(host) = key

\* the keys of the map wildcard_hosts of RouteTable::new
wildcard_patterns(doms) ==
    LET pairs == host_routes(doms)
    IN  {pairs[i].host : i \in {j \in 1..Len(pairs) :
                                    pairs[j].host # <<"_">> /\ contains_star(pairs[j].host)}}

exact_keys(doms) ==
    LET pairs == host_routes(doms)
    IN  {to_ascii_lowercase(pairs[i].host) : i \in {j \in 1..Len(pairs) :
                                    pairs[j].host # <<"_">> /\ ~contains_star(pairs[j].host)}}

\* the orders in which HashMap::into_iter can yield the wildcard patterns
IterationOrders(keys) ==
    {o \in [1..Cardinality(keys) -> keys] : \A i, j \in 1..Cardinality(keys) : o[i] = o[j] => i = j}

\* RouteTable::new, the map of the wildcard patterns iterated in `order`
RouteTable_new(doms, order) ==
    LET pairs == host_routes(doms)
    IN  [exact_hosts |-> [h \in exact_keys(doms) |->
                            tree_of(NodeNew(<< >>), routes_under(pairs, h, is_exact_key))],
         wildcard_hosts |-> [i \in 1..Len(order) |->
                            [pattern |-> order[i],
                             tree |-> tree_of(NodeNew(<< >>), routes_under(pairs, order[i], is_wildcard_key))]],
         default |-> tree_of(NodeNew(<< >>), routes_under(pairs, <<"_">>, is_default_host))]

NoMatch == [route |-> None, stage |-> "none", key |-> << >>]

\* the loop of match_route over the wildcard hosts
RECURSIVE match_wildcard_hosts(_, _, _, _, _)
match_wildcard_hosts(whosts, req_host, uri, method_upper, headers) ==
    IF whosts = << >> THEN NoMatch
    ELSE LET r == IF host_matches(req_host, Head(whosts).pattern)
                  THEN radix_match_in_tree(Head(whosts).tree, uri, method_upper, headers)
                  ELSE None
         IN  IF IsSome(r) THEN [route |-> r, stage |-> "wildcard", key |-> Head(whosts).pattern]
             ELSE match_wildcard_hosts(Tail(whosts), req_host, uri, method_upper, headers)

\* the exact-host stage of match_route returns the route it found
ExactStageSkipped(r) == FALSE

exact_stage_returns(r) == IsSome(r)

\* RouteTable::match_route; the result also names the stage and the tree
\* that produced the route
RouteTable_match_route(tbl, request) ==
    LET method_upper == to_uppercase(request.method)
        req_host == before_first(request.host, ":")
        req_host_lower == to_ascii_lowercase(req_host)
        e == IF req_host_lower \in DOMAIN tbl.exact_hosts
             THEN radix_match_in_tree(tbl.exact_hosts[req_host_lower], request.uri,
                                      method_upper, request.headers)
             ELSE None
        w == match_wildcard_hosts(tbl.wildcard_hosts, req_host, request.uri,
                                  method_upper, request.headers)
        d == radix_match_in_tree(tbl.default, request.uri, method_upper, request.headers)
    IN  IF exact_stage_returns(e)
        THEN [route |-> e, stage |-> "exact", key |-> req_host_lower]
        ELSE IF IsSome(w.route) THEN w
        ELSE IF IsSome(d) THEN [route |-> d, stage |-> "default", key |-> <<"_">>]
        ELSE NoMatch

NoRequest == [host |-> << >>, uri |-> << >>, method |-> "", headers |-> {}]

NoRr == [instances |-> << >>, counter |-> 0, picks |-> << >>]

NoSample == [idx1 |-> 0, idx2 |-> 0, idx |-> 0, tie |-> FALSE]

\* no active health check configured, no counter, no probe in flight
NoHc ==
    [active |-> None,       \* Option<ActiveHealthCheck>: the two thresholds
     count |-> << >>,       \* Cluster.health_check_count : node key -> count
     probe |-> "",          \* the node key check_one_node is probing
     run |-> << >>,         \* history: node key -> outcome and length of its current run of probes
     nprobes |-> 0]         \* number of probes so far

InitHc == hc = NoHc

InitFn ==
    /\ m_domains = << >>
    /\ m_table = None
    /\ m_req = NoRequest
    /\ m_res = NoMatch
    /\ rr = NoRr
    /\ sample = NoSample

nonFnVars == <<brkVars, upVars, routeVars, clVars, rlVars, bgVars, hcVars, rbVars>>

\* ------------------------------------------------------------------------
\* The config watcher (server/bootstrap.rs start_config_watcher,
\* config/etcd.rs) against etcd, and the background loops with the shared
\* shutdown notifier (server/bootstrap.rs)
\* ------------------------------------------------------------------------
WatchKinds == {"domain", "cluster", "meta"}

\* header.revision of a response of the store
etcd_revision(log) == Len(log) + 1

\* the revisions of the changes under the prefix of `kind`
ChangesOf(log, kind) == {i + 1 : i \in {j \in 1..Len(log) : log[j] = kind}}

\* load_prefix: one range request, the values under the prefix and the
\* revision of the response header
load_prefix(log, kind) == [items |-> ChangesOf(log, kind), revision |-> etcd_revision(log)]

\* WatchCreate.start_revision: Some(start_revision + 1) if start_revision > 0,
\* else None, and etcd then watches from the next commit on
watch_from(start_revision, log) ==
    IF start_revision > 0 THEN start_revision + 1 ELSE etcd_revision(log) + 1

NoStream == [st |-> "none", next |-> 0, latest_revision |-> 0]

NewWatcher ==
    [pc |-> "load_clusters", items |-> {}, cluster_rev |-> 0, revision |-> 0,
     result |-> None, reconnects |-> 0]

LoopNames == {"discovery", "health", "keepalive", "registry_watch"}

\* the first step of each loop body
LoopStart ==
    [l \in LoopNames |->
        CASE l = "discovery" -> "work"
          [] l = "health" -> "wait"
          [] l = "keepalive" -> "wait"
          [] l = "registry_watch" -> "wait"]

InitBackground ==
    /\ etcd_log = << >>
    /\ watcher = NewWatcher
    /\ streams = [k \in WatchKinds |-> NoStream]
    /\ chan = << >>
    /\ applied = {}
    /\ shutdown = FALSE
    /\ loops = LoopStart

nonBgVars == <<brkVars, upVars, routeVars, clVars, rlVars, fnVars, hcVars, rbVars>>

\* a put or delete committed by the control plane
EtcdChange(kind) ==
    /\ Len(etcd_log) < MaxChanges
    /\ etcd_log' = Append(etcd_log, kind)
    /\ UNCHANGED <<nonBgVars, watcher, streams, chan, applied, shutdown, loops>>

\* initial_load: load_prefix of the clusters
WLoadClusters ==
    /\ watcher.pc = "load_clusters"
    /\ LET r == load_prefix(etcd_log, "cluster")
       IN  watcher' = [watcher EXCEPT !.pc = "load_domains", !.items = r.items,
                                      !.cluster_rev = r.revision]
    /\ UNCHANGED <<nonBgVars, etcd_log, streams, chan, applied, shutdown, loops>>

\* initial_load: load_prefix of the domains, revision = max of the two
\* header revisions; the caller applies the clusters, then the domains
WLoadDomains ==
    /\ watcher.pc = "load_domains"
    /\ LET r == load_prefix(etcd_log, "domain")
       IN  /\ applied' = watcher.items \cup r.items
           /\ watcher' = [watcher EXCEPT !.pc = "start", !.items = {}, !.cluster_rev = 0,
                                         !.revision = max2(watcher.cluster_rev, r.revision)]
    /\ UNCHANGED <<nonBgVars, etcd_log, streams, chan, shutdown, loops>>

\* a range request of initial_load fails: the task logs and returns
WLoadFail ==
    /\ watcher.pc \in {"load_clusters", "load_domains"}
    /\ watcher' = [watcher EXCEPT !.pc = "stopped", !.items = {}, !.cluster_rev = 0]
    /\ UNCHANGED <<nonBgVars, etcd_log, streams, chan, applied, shutdown, loops>>

\* head of the watch loop: a new channel, watch_once spawned, which spawns
\* the three stream tasks, each holding one sender
WStart ==
    /\ watcher.pc = "start"
    /\ watcher' = [watcher EXCEPT !.pc = "events", !.result = None]
    /\ streams' = [k \in WatchKinds |-> [NoStream EXCEPT !.st = "connecting"]]
    /\ chan' = << >>
    /\ UNCHANGED <<nonBgVars, etcd_log, applied, shutdown, loops>>

\* a stream task returns and drops its sender; the select of watch_once
\* completes with the result of the first task that returns, the other
\* JoinHandles are dropped, which leaves their tasks running
StreamReturns(k, res) ==
    /\ streams' = [streams EXCEPT ![k] = [NoStream EXCEPT !.st = "done"]]
    /\ watcher' = [watcher EXCEPT !.result = IF watcher.result = None THEN Some(res) ELSE @]

\* watch_prefix_stream / watch_meta_stream: the watch is created
SOpen(k) ==
    /\ watcher.pc = "events"
    /\ streams[k].st = "connecting"
    /\ streams' = [streams EXCEPT ![k] =
            [st |-> "open",
             next |-> IF k = "meta" THEN etcd_revision(etcd_log) + 1
                      ELSE watch_from(watcher.revision, etcd_log),
             latest_revision |-> IF k = "meta" THEN 0 ELSE watcher.revision]]
    /\ UNCHANGED <<nonBgVars, etcd_log, watcher, chan, applied, shutdown, loops>>

\* client.watch_stream(..).await? fails
SOpenFail(k) ==
    /\ watcher.pc = "events"
    /\ watcher.reconnects < MaxReconnects
    /\ streams[k].st = "connecting"
    /\ StreamReturns(k, [ok |-> FALSE, rev |-> 0])
    /\ UNCHANGED <<nonBgVars, etcd_log, chan, applied, shutdown, loops>>

\* the changes of the prefix the stream has not delivered yet
Undelivered(k) == {r \in ChangesOf(etcd_log, k) : r >= streams[k].next}

\* one response of the stream: latest_revision = header.revision, the event
\* is sent on the channel
SRecv(k) ==
    /\ watcher.pc = "events"
    /\ streams[k].st = "open"
    /\ Undelivered(k) # {}
    /\ LET r == CHOOSE x \in Undelivered(k) : \A y \in Undelivered(k) : x <= y
       IN  /\ streams' = [streams EXCEPT ![k].latest_revision = r, ![k].next = r + 1]
           /\ chan' = Append(chan, [kind |-> k, rev |-> r])
    /\ UNCHANGED <<nonBgVars, etcd_log, watcher, applied, shutdown, loops>>

\* next_response returns None (the stream ended or broke): Ok(latest_revision)
SEnd(k) ==
    /\ watcher.pc = "events"
    /\ watcher.reconnects < MaxReconnects
    /\ streams[k].st = "open"
    /\ StreamReturns(k, [ok |-> TRUE, rev |-> streams[k].latest_revision])
    /\ UNCHANGED <<nonBgVars, etcd_log, chan, applied, shutdown, loops>>

\* rx.recv() yields an event: the mutation is applied
WRecv ==
    /\ watcher.pc = "events"
    /\ chan # << >>
    /\ applied' = applied \cup {Head(chan).rev}
    /\ chan' = Tail(chan)
    /\ UNCHANGED <<nonBgVars, etcd_log, watcher, streams, shutdown, loops>>

\* every sender of the channel has been dropped
channel_closed == \A k \in WatchKinds : streams[k].st = "done"

\* rx.recv() yields None: the channel is empty and closed
WClosed ==
    /\ watcher.pc = "events"
    /\ chan = << >>
    /\ channel_closed
    /\ watcher' = [watcher EXCEPT !.pc = "join"]
    /\ UNCHANGED <<nonBgVars, etcd_log, streams, chan, applied, shutdown, loops>>

\* watch_handle.await: Ok(Ok(new_rev)) => revision = new_rev
WJoin ==
    /\ watcher.pc = "join"
    /\ watcher' = [watcher EXCEPT !.pc = "backoff", !.result = None,
                                  !.revision = IF Unwrap(watcher.result).ok
                                               THEN Unwrap(watcher.result).rev ELSE @]
    /\ UNCHANGED <<nonBgVars, etcd_log, streams, chan, applied, shutdown, loops>>

\* sleep_or_shutdown(5 s): the sleep elapsed
WBackoff ==
    /\ watcher.pc = "backoff"
    /\ watcher' = [watcher EXCEPT !.pc = "start", !.reconnects = @ + 1]
    /\ streams' = [k \in WatchKinds |-> NoStream]
    /\ UNCHANGED <<nonBgVars, etcd_log, chan, applied, shutdown, loops>>

\* the branch `_ = shutdown.notified()` of the select: abort and return
WReturn ==
    /\ watcher.pc = "notified"
    /\ watcher' = [watcher EXCEPT !.pc = "stopped", !.result = None]
    /\ streams' = [k \in WatchKinds |-> NoStream]
    /\ chan' = << >>
    /\ UNCHANGED <<nonBgVars, etcd_log, applied, shutdown, loops>>

\* the watcher waits in a select with shutdown.notified()
watcher_waits(w) == w.pc \in {"events", "backoff"}

\* Notify::notify_waiters wakes the tasks waiting in notified() and stores
\* no permit
woken(waits) == waits

\* wait_for_shutdown: a signal arrived, shutdown.notify_waiters()
Shutdown ==
    /\ ~shutdown
    /\ shutdown' = TRUE
    /\ loops' = [l \in LoopNames |-> IF woken(loops[l] = "wait") THEN "notified" ELSE loops[l]]
    /\ watcher' = IF woken(watcher_waits(watcher)) THEN [watcher EXCEPT !.pc = "notified"]
                  ELSE watcher
    /\ UNCHANGED <<nonBgVars, etcd_log, streams, chan, applied>>

\* the step of a loop body that selects on no shutdown branch comes to its
\* end: poll_consul_services, run_health_checks, keepalive_once, and the
\* sleep of 3 s of the registry watch loop
LoopWorked(l) ==
    /\ loops[l] = "work"
    /\ loops' = [loops EXCEPT ![l] = "wait"]
    /\ UNCHANGED <<nonBgVars, etcd_log, watcher, streams, chan, applied, shutdown>>

\* the other branch of the select completes: the sleep elapsed, the wake
\* of a config reload arrived, watch_instances_once returned
LoopWaited(l) ==
    /\ loops[l] = "wait"
    /\ loops' = [loops EXCEPT ![l] = "work"]
    /\ UNCHANGED <<nonBgVars, etcd_log, watcher, streams, chan, applied, shutdown>>

\* the shutdown branch of the select: return
LoopReturn(l) ==
    /\ loops[l] = "notified"
    /\ loops' = [loops EXCEPT ![l] = "stopped"]
    /\ UNCHANGED <<nonBgVars, etcd_log, watcher, streams, chan, applied, shutdown>>

\* ------------------------------------------------------------------------
\* SpecBreaker: callers of the registry on one node key, calls overlapping
\* ------------------------------------------------------------------------
BreakerOps == {"check", "record_success", "record_failure"}

ProbedNode == "a:80"

InitBreaker ==
    /\ now = 0
    /\ cb_cfg \in {Some(c) : c \in BreakerConfigs}
    /\ breakers = << >>
    /\ pc = [t \in Callers |-> "idle"]
    /\ cont = [t \in Callers |-> "idle"]
    /\ bnode = [t \in Callers |-> ProbedNode]
    /\ bop = [t \in Callers |-> "none"]
    /\ bret = [t \in Callers |-> "Unit"]
    /\ hist = << >>
    /\ cstale = [t \in Callers |-> FALSE]
    /\ streak = [fails |-> 0, closed |-> TRUE]
    /\ cprobe = [t \in Callers |-> FALSE]
    /\ cfg = NoCluster
    /\ node_health = << >>
    /\ rr_counter = 0
    /\ req = [t \in Callers |-> NewReq]
    /\ InitRouting
    /\ InitLb(cfg)
    /\ InitLimiter
    /\ rl_cfg = NoRateLimit
    /\ InitBackground
    /\ InitFn
    /\ InitHc
    /\ InitRb

\* a caller invokes the registry (as the tests of circuit_breaker.rs do)
CallOp(t, op) ==
    /\ pc[t] = "idle"
    /\ EnterCall(t, op, ProbedNode, "ret")
    /\ UNCHANGED <<extVars, routeVars, upVars, now, cb_cfg, bret>>

Call(t) ==
    /\ \E op \in BreakerOps : CallOp(t, op)
    /\ UNCHANGED streak

\* the caller has looked at the returned value
Finish(t) ==
    /\ pc[t] = "ret"
    /\ pc' = [pc EXCEPT ![t] = "idle"]
    /\ bop' = [bop EXCEPT ![t] = "none"]
    /\ bret' = [bret EXCEPT ![t] = "Unit"]
    /\ cstale' = [cstale EXCEPT ![t] = FALSE]
    /\ cprobe' = [cprobe EXCEPT ![t] = FALSE]
    /\ UNCHANGED <<extVars, routeVars, upVars, now, cb_cfg, breakers, cont, bnode, hist, streak>>

AllIdle == \A t \in Callers : pc[t] = "idle"

\* the same, one call at a time; streak counts the record_failure calls since
\* the last record_success call
CallSeq(t) ==
    /\ AllIdle
    /\ \E op \in BreakerOps :
          /\ CallOp(t, op)
          /\ streak' =
                CASE op = "record_failure" ->
                       [streak EXCEPT !.fails = IF @ <= MaxThreshold THEN @ + 1 ELSE @]
                  [] op = "record_success" -> [streak EXCEPT !.fails = 0]
                  [] OTHER -> streak

\* streak.closed: the breaker was Closed when the last record_success returned
FinishSeq(t) ==
    /\ pc[t] = "ret"
    /\ pc' = [pc EXCEPT ![t] = "idle"]
    /\ bop' = [bop EXCEPT ![t] = "none"]
    /\ bret' = [bret EXCEPT ![t] = "Unit"]
    /\ streak' = IF bop[t] = "record_success"
                 THEN [streak EXCEPT !.closed = (Br(t).state = STATE_CLOSED)]
                 ELSE streak
    /\ cstale' = [cstale EXCEPT ![t] = FALSE]
    /\ cprobe' = [cprobe EXCEPT ![t] = FALSE]
    /\ UNCHANGED <<extVars, routeVars, upVars, now, cb_cfg, breakers, cont, bnode, hist>>

NextBreaker ==
    \/ \E t \in Callers : Call(t)
    \/ \E t \in Callers : BreakerStep(t)
    \/ \E t \in Callers : Finish(t)
    \/ Tick

SpecBreaker == InitBreaker /\ [][NextBreaker]_vars

NextBreakerSeq ==
    \/ \E t \in Callers : CallSeq(t)
    \/ \E t \in Callers : BreakerStep(t)
    \/ \E t \in Callers : FinishSeq(t)
    \/ Tick

SpecBreakerSeq == InitBreaker /\ [][NextBreakerSeq]_vars

\* ------------------------------------------------------------------------
\* The upstream phase of a request (proxy/handler.rs, upstream/cluster.rs,
\* upstream/loadbalance/round_robin.rs)
\* ------------------------------------------------------------------------
\* retry_cfg.map(|r| r.count).unwrap_or(0)
max_retries == IF IsSome(cfg.retry) THEN Unwrap(cfg.retry).count ELSE 0

\* Cluster::effective_nodes as a list: the discovered nodes if there are any,
\* otherwise the static nodes
effective_list(disc, static_nodes) == IF Len(disc) > 0 THEN disc ELSE static_nodes

\* the node keys ("host:port") of a node list
node_keys(nodes) == {nodes[i].endpoint : i \in 1..Len(nodes)}

\* Cluster::node_count
node_count == Len(effective_list(discovered, cfg.nodes))

\* RoundRobinBalancer::update_instances: prefix sums of weight.max(1)
RECURSIVE prefix_sum(_, _)
prefix_sum(nodes, i) ==
    IF i = 0 THEN 0
    ELSE prefix_sum(nodes, i - 1) + (IF nodes[i].weight > 1 THEN nodes[i].weight ELSE 1)

total_weight == prefix_sum(cfg.nodes, Len(cfg.nodes))

\* RoundRobinBalancer::do_select on the counter value `count`:
\* partition_point(|s| s <= target), the first index whose prefix sum exceeds target
do_select(count) ==
    LET target == count % total_weight
        idx == CHOOSE i \in 1..Len(cfg.nodes) :
                  /\ prefix_sum(cfg.nodes, i) > target
                  /\ \A j \in 1..(i - 1) : prefix_sum(cfg.nodes, j) <= target
    IN  cfg.nodes[idx].endpoint

\* the node keys of Cluster::effective_nodes
effective_nodes == node_keys(effective_list(discovered, cfg.nodes))

\* Cluster::is_node_healthy: an absent entry is healthy
is_node_healthy(health, node_key) ==
    IF node_key \in DOMAIN health THEN health[node_key] ELSE TRUE

\* node_health.insert(node_key, v)
health_insert(health, node_key, v) ==
    [k \in DOMAIN health \cup {node_key} |-> IF k = node_key THEN v ELSE health[k]]

\* Cluster::record_health_failure: the passive failure hook; it leaves the
\* active-check health map alone
record_health_failure(health, node_key) == health

\* last_error.unwrap_or_else(|| error_response(default))
unwrap_or(last_error, default) ==
    IF IsSome(last_error) THEN Unwrap(last_error) ELSE default

\* handle_request after the route match: the in-flight gauge is incremented
gauge_increment(m) == [m EXCEPT !.in_flight = @ + 1]

\* RequestContext::error_response: the counter, the duration histogram and
\* the gauge decrement (route_name is set once a route has matched)
error_response(m) ==
    [requests_total |-> m.requests_total + 1,
     request_duration |-> m.request_duration + 1,
     in_flight |-> m.in_flight - 1]

\* RequestContext::finalize_metrics, called by phase_log
finalize_metrics(m) ==
    [requests_total |-> m.requests_total + 1,
     request_duration |-> m.request_duration + 1,
     in_flight |-> m.in_flight - 1]

\* the metrics of a request that leaves through return statement `exit`:
\* last_error.unwrap_or_else(|| ctx.error_response(..)) builds a response only
\* when no error is stored; a relayed response reaches phase_log
exit_metrics(q, exit) ==
    CASE exit \in {"loop_end", "deadline", "no_upstream"} ->
           IF IsSome(q.last_error) THEN q.metrics ELSE error_response(q.metrics)
      [] exit = "relay" -> finalize_metrics(q.metrics)
      [] OTHER -> error_response(q.metrics)

\* the whole budget as the timeout of every attempt
PerAttemptFullBudget(q) == cfg.budget

\* let per_attempt_timeout = remaining
per_attempt_timeout(q) == q.remaining

\* the breaker-call variables of a step that calls no breaker method
NoCall == UNCHANGED <<breakers, cont, bnode, bop, hist, cstale, cprobe>>

\* phase_upstream returns `status` to the client through return statement `exit`
Done(r, status, exit) ==
    /\ pc' = [pc EXCEPT ![r] = "done"]
    /\ req' = [req EXCEPT ![r] = [NewReq EXCEPT !.status = status,
                                                !.exit = exit,
                                                !.attempt = req[r].attempt,
                                                !.last_error = req[r].last_error,
                                                !.nattempts = req[r].nattempts,
                                                !.nretries = req[r].nretries,
                                                !.all503 = req[r].all503,
                                                !.metrics = exit_metrics(req[r], exit)]]

\* phase_upstream up to the retry loop: deadline = now + send + read
UpBegin(r) ==
    /\ pc[r] \in {"idle", "done"}
    /\ pc' = [pc EXCEPT ![r] = "loop_head"]
    /\ req' = [req EXCEPT ![r] = [NewReq EXCEPT !.deadline = now + cfg.budget,
                                                !.metrics = gauge_increment(NoMetrics)]]
    /\ bop' = [bop EXCEPT ![r] = "none"]
    /\ bret' = [bret EXCEPT ![r] = "Unit"]
    /\ cstale' = [cstale EXCEPT ![r] = FALSE]
    /\ cprobe' = [cprobe EXCEPT ![r] = FALSE]
    /\ UNCHANGED <<extVars, routeVars, now, cb_cfg, breakers, cont, bnode, hist, streak, cfg, node_health, rr_counter>>

\* the same when the gateway serves one request at a time
UpBeginSolo(r) ==
    /\ \A u \in Callers \ {r} : pc[u] = "idle"
    /\ UpBegin(r)

\* head of `for attempt in 0..=max_retries`: the remaining budget
UpLoopHead(r) ==
    /\ pc[r] = "loop_head"
    /\ LET q == req[r]
           remaining == IF q.deadline > now THEN q.deadline - now ELSE 0 IN
       IF q.attempt > max_retries
       THEN Done(r, unwrap_or(q.last_error, 502), "loop_end")
       ELSE IF remaining = 0
       THEN Done(r, unwrap_or(q.last_error, 504), "deadline")
       ELSE /\ pc' = [pc EXCEPT ![r] = "select"]
            /\ req' = [req EXCEPT ![r].remaining = remaining, ![r].skip = 0]
    /\ NoCall
    /\ UNCHANGED <<extVars, routeVars, now, cb_cfg, bret, streak, cfg, node_health, rr_counter>>

\* the candidate is accepted: the request is built and issued
Issue(r, q) ==
    /\ pc' = [pc EXCEPT ![r] = "await"]
    /\ req' = [req EXCEPT ![r] = [q EXCEPT !.upstream_start = now,
                                           !.nattempts = @ + 1]]

\* the candidate is skipped
Skip(r, q) ==
    /\ pc' = [pc EXCEPT ![r] = "select"]
    /\ req' = [req EXCEPT ![r] = [q EXCEPT !.skip = @ + 1,
                                           !.addr = "",
                                           !.picked_healthy = TRUE]]

\* one iteration of select_healthy_node: select_upstream, the tried test,
\* the health test and the call of the breaker check
UpSelect(r) ==
    /\ pc[r] = "select"
    /\ LET q == req[r] IN
       IF q.skip > node_count \/ total_weight = 0
       THEN /\ Done(r, unwrap_or(q.last_error, 503), "no_upstream")
            /\ NoCall
            /\ UNCHANGED rr_counter
       ELSE LET addr == do_select(rr_counter)
                q1 == [q EXCEPT !.addr = addr,
                                !.picked_healthy = is_node_healthy(node_health, addr)] IN
            /\ rr_counter' = (rr_counter + 1) % (2 ^ CounterBits)
            /\ IF addr \in q.tried_addrs
               THEN Skip(r, q1) /\ NoCall
               ELSE IF ~is_node_healthy(node_health, addr)
               THEN Skip(r, q1) /\ NoCall
               ELSE IF IsSome(cb_cfg)
               THEN /\ EnterCall(r, "check", addr, "sel_checked")
                    /\ req' = [req EXCEPT ![r] = q1]
               ELSE Issue(r, q1) /\ NoCall
    /\ UNCHANGED <<extVars, routeVars, now, cb_cfg, bret, streak, cfg, node_health>>

\* select_healthy_node, the match on the value of the breaker check
UpSelChecked(r) ==
    /\ pc[r] = "sel_checked"
    /\ IF bret[r] = "Rejected"
       THEN Skip(r, req[r])
       ELSE Issue(r, req[r])
    /\ NoCall
    /\ UNCHANGED <<extVars, routeVars, now, cb_cfg, bret, streak, cfg, node_health, rr_counter>>

\* the attempt completes: a response or a transport error before the
\* per-attempt timeout (= remaining) fires, or the timeout; then the health
\* hook and the breaker call
UpAwait(r) ==
    /\ pc[r] = "await"
    /\ \E o \in Outcomes :
          LET q == req[r]
              waited == now - q.upstream_start
              failed == o.kind # "resp" \/ o.status >= 500 IN
          /\ IF o.kind = "timeout"
             THEN waited >= per_attempt_timeout(q)
             ELSE waited <= per_attempt_timeout(q)
          /\ req' = [req EXCEPT ![r].outcome = o,
                                ![r].spent = @ + waited,
                                ![r].all503 = @ /\ o.kind = "resp" /\ o.status = 503]
          /\ node_health' = IF o.kind = "resp" THEN node_health
                            ELSE record_health_failure(node_health, q.addr)
          /\ IF IsSome(cb_cfg)
             THEN EnterCall(r, IF failed THEN "record_failure" ELSE "record_success",
                            q.addr, "after_resp")
             ELSE pc' = [pc EXCEPT ![r] = "after_resp"] /\ NoCall
    /\ UNCHANGED <<extVars, routeVars, now, cb_cfg, bret, streak, cfg, rr_counter>>

\* `continue` of the retry loop
Retry(r, error_status) ==
    /\ pc' = [pc EXCEPT ![r] = "loop_head"]
    /\ req' = [req EXCEPT ![r].nretries = @ + 1,
                          ![r].tried_addrs = @ \cup {req[r].addr},
                          ![r].last_error = Some(error_status),
                          ![r].metrics = error_response(@),
                          ![r].attempt = @ + 1,
                          ![r].addr = "",
                          ![r].outcome = NoOutcome,
                          ![r].remaining = 0,
                          ![r].upstream_start = 0]

\* the three arms of `match result` after the breaker call
UpAfterResp(r) ==
    /\ pc[r] = "after_resp"
    /\ LET q == req[r]
           o == q.outcome
           more == q.attempt < max_retries /\ IsSome(cfg.retry) IN
       CASE o.kind = "resp" ->
              IF more /\ o.status \in Unwrap(cfg.retry).retry_on_statuses
              THEN Retry(r, o.status)
              ELSE Done(r, o.status, "relay")
         [] o.kind = "connect_error" ->
              IF more /\ Unwrap(cfg.retry).retry_on_connect_failure
              THEN Retry(r, 502)
              ELSE Done(r, 502, "transport")
         [] OTHER ->
              IF more /\ Unwrap(cfg.retry).retry_on_timeout
              THEN Retry(r, 504)
              ELSE Done(r, 504, "timeout")
    /\ NoCall
    /\ UNCHANGED <<extVars, routeVars, now, cb_cfg, bret, streak, cfg, node_health, rr_counter>>

\* Cluster::mark_node_healthy / mark_node_unhealthy, called by the active
\* health checker
MarkNode(n, healthy) ==
    /\ n \in effective_nodes
    /\ healthy => ~is_node_healthy(node_health, n)
    /\ Cardinality(DOMAIN node_health \cup {n}) <= MaxFlagged
    /\ node_health' = health_insert(node_health, n, healthy)
    /\ node_health' # node_health
    /\ UNCHANGED <<extVars, routeVars, brkVars, cfg, rr_counter, req>>

UpstreamBreakerConfigs ==
    {[failure_threshold |-> 1, success_threshold |-> 1, open_duration_secs |-> 1]}

\* the state after construction with cluster `c` and breaker config `cb`
InitGatewayBase(c, cb, rc) ==
    /\ now = 0
    /\ cb_cfg = cb
    /\ breakers = << >>
    /\ pc = [t \in Callers |-> "idle"]
    /\ cont = [t \in Callers |-> "idle"]
    /\ bnode = [t \in Callers |-> ProbedNode]
    /\ bop = [t \in Callers |-> "none"]
    /\ bret = [t \in Callers |-> "Unit"]
    /\ hist = << >>
    /\ cstale = [t \in Callers |-> FALSE]
    /\ streak = [fails |-> 0, closed |-> TRUE]
    /\ cprobe = [t \in Callers |-> FALSE]
    /\ cfg = c
    /\ node_health = << >>
    /\ rr_counter = 0
    /\ req = [t \in Callers |-> NewReq]
    /\ InitRouting
    /\ InitLb(cfg)
    /\ InitLimiter
    /\ rl_cfg = rc

InitGateway(c, cb, rc) ==
    InitGatewayBase(c, cb, rc) /\ InitBackground /\ InitFn /\ InitHc /\ InitRb

InitCluster(c, cb) == InitGateway(c, cb, NoRateLimit)

\* SpecUpstream: requests in flight together on a one-node cluster with a
\* circuit breaker, no retry and no active health check configured
InitUpstream ==
    \E c \in ClusterConfigs, cb \in UpstreamBreakerConfigs :
        /\ Len(c.nodes) = 1
        /\ c.retry = None
        /\ InitCluster(c, Some(cb))

NextUpstream ==
    \/ \E r \in Callers : UpBegin(r)
    \/ \E r \in Callers : UpLoopHead(r)
    \/ \E r \in Callers : UpSelect(r)
    \/ \E r \in Callers : UpSelChecked(r)
    \/ \E r \in Callers : UpAwait(r)
    \/ \E r \in Callers : UpAfterResp(r)
    \/ \E r \in Callers : BreakerStep(r)
    \/ Tick

SpecUpstream == InitUpstream /\ [][NextUpstream]_vars

\* SpecUpstreamSolo: one request at a time, every cluster configuration,
\* with and without a circuit breaker
InitUpstreamSolo ==
    \E c \in ClusterConfigs, cb \in {None} \cup {Some(b) : b \in UpstreamBreakerConfigs} :
        InitCluster(c, cb)

NextUpstreamSolo ==
    \/ \E r \in Callers : UpBeginSolo(r)
    \/ \E r \in Callers : UpLoopHead(r)
    \/ \E r \in Callers : UpSelect(r)
    \/ \E r \in Callers : UpSelChecked(r)
    \/ \E r \in Callers : UpAwait(r)
    \/ \E r \in Callers : UpAfterResp(r)
    \/ \E r \in Callers : BreakerStep(r)
    \/ \E n \in Nodes, healthy \in BOOLEAN : MarkNode(n, healthy)
    \/ Tick

SpecUpstreamSolo == InitUpstreamSolo /\ [][NextUpstreamSolo]_vars

\* SpecUpstreamTimed: one request at a time on a cluster without circuit
\* breaker, budgets up to MaxTimedBudget, and a clock that cannot pass the
\* instant at which the tokio::time::timeout of a pending attempt fires
TimedClusterConfigs ==
    [nodes : NodeLists,
     retry : {None} \cup {Some(r) : r \in RetryConfigs},
     budget : 1..MaxTimedBudget,
     lb_type : {"roundrobin"}]

InitUpstreamTimed == \E c \in TimedClusterConfigs : InitCluster(c, None)

TickTimed ==
    /\ now < MaxClock
    /\ \A r \in Callers :
          pc[r] = "await" => now - req[r].upstream_start < per_attempt_timeout(req[r])
    /\ now' = now + 1
    /\ UNCHANGED <<extVars, routeVars, upVars, cb_cfg, breakers, pc, cont, bnode, bop, bret, hist, cstale, streak, cprobe>>

NextUpstreamTimed ==
    \/ \E r \in Callers : UpBeginSolo(r)
    \/ \E r \in Callers : UpLoopHead(r)
    \/ \E r \in Callers : UpSelect(r)
    \/ \E r \in Callers : UpAwait(r)
    \/ \E r \in Callers : UpAfterResp(r)
    \/ TickTimed

SpecUpstreamTimed == InitUpstreamTimed /\ [][NextUpstreamTimed]_vars

\* ------------------------------------------------------------------------
\* SpecCluster: requests selecting nodes and dropping their guards, config
\* upserts of the cluster, discovery updates and active health marks
\* (upstream/cluster.rs, upstream/loadbalance.rs)
\* ------------------------------------------------------------------------
brkRest == <<now, cb_cfg, pc, cont, bnode, bop, bret, hist, cstale, streak, cprobe>>

\* weight.max(1)
clamped_weight(inst) == IF inst.weight > 1 THEN inst.weight ELSE 1

\* RoundRobinBalancer::do_select on an instance list: the first index whose
\* prefix sum of clamped weights exceeds count % total_weight
rr_index(insts, count) ==
    LET target == count % prefix_sum(insts, Len(insts)) IN
    CHOOSE i \in 1..Len(insts) :
        /\ prefix_sum(insts, i) > target
        /\ \A j \in 1..(i - 1) : prefix_sum(insts, j) <= target

\* score(a) <= score(b): active / weight for LeastRequest,
\* ewma * (active + 1) / weight for PeakEwma
score_le(kind, a, b, h) ==
    IF kind = "LeastRequest"
    THEN h[a.active] * clamped_weight(b) <= h[b.active] * clamped_weight(a)
    ELSE h[a.ewma] * (h[a.active] + 1) * clamped_weight(b)
            <= h[b.ewma] * (h[b.active] + 1) * clamped_weight(a)

\* do_select of a P2C balancer with idx1 and offset as sampled:
\* idx2 = (idx1 + offset) % len, idx1 if score(idx1) <= score(idx2)
p2c_pick(l, h, sampled1, offset) ==
    LET idx2 == ((sampled1 - 1 + offset) % Len(l.instances)) + 1
    IN  IF score_le(l.kind, l.instances[sampled1], l.instances[idx2], h) THEN sampled1 ELSE idx2

\* the indices do_select of the balancer can return
selectable(l, h, count) ==
    LET insts == l.instances
        len == Len(insts) IN
    CASE len = 0 -> {}
      [] l.kind = "RoundRobin" -> {rr_index(insts, count)}
      [] l.kind = "Random" -> 1..len
      [] len = 1 -> {1}
      [] OTHER -> {p2c_pick(l, h, p[1], p[2]) : p \in (1..len) \X (1..(len - 1))}

\* LoadBalancer::select up to the construction of the RequestGuard: do_select;
\* the LeastRequest arm still has inc_active to do
LbSelect(t) ==
    /\ guard[t].pc = "idle"
    /\ nsel < MaxSelects
    /\ nsel' = nsel + 1
    /\ IF selectable(lb, heap, rr_counter) = {}
       THEN UNCHANGED <<guard, rr_counter>>
       ELSE /\ \E i \in selectable(lb, heap, rr_counter) :
                 guard' = [guard EXCEPT ![t] =
                              [pc |-> IF lb.kind = "LeastRequest" THEN "selected" ELSE "live",
                               endpoint |-> lb.instances[i].endpoint,
                               active |-> lb.instances[i].active,
                               ewma |-> lb.instances[i].ewma,
                               counted |-> lb.kind = "LeastRequest",
                               failed |-> FALSE,
                               current |-> 0,
                               of_lb |-> TRUE,
                               skipped |-> FALSE]]
            /\ rr_counter' = IF lb.kind = "RoundRobin"
                             THEN (rr_counter + 1) % (2 ^ CounterBits) ELSE rr_counter
    /\ UNCHANGED <<xVars, rlVars, routeVars, brkRest, breakers, cfg, node_health, req, discovered, lb, heap, utask, nupd>>

\* the LeastRequest arm of LoadBalancer::select: instance.inc_active()
LbAcquire(t) ==
    /\ guard[t].pc = "selected"
    /\ heap' = [heap EXCEPT ![guard[t].active] = @ + 1]
    /\ guard' = [guard EXCEPT ![t].pc = "live"]
    /\ UNCHANGED <<xVars, rlVars, routeVars, brkRest, breakers, upVars, discovered, lb, utask, nsel, nupd>>

\* RequestGuard::mark_failed
GuardMarkFailed(t) ==
    /\ guard[t].pc = "live"
    /\ guard[t].ewma # 0
    /\ ~guard[t].failed
    /\ guard' = [guard EXCEPT ![t].failed = TRUE]
    /\ UNCHANGED <<xVars, rlVars, routeVars, brkRest, breakers, upVars, discovered, lb, heap, utask, nsel, nupd>>

\* RequestGuard::drop: dec_active when the guard holds its balancer; then the
\* LatencyGuard drops and update_latency loads the current EWMA
GuardDrop(t) ==
    /\ guard[t].pc = "live"
    /\ LET h == IF guard[t].counted
                THEN [heap EXCEPT ![guard[t].active] = @ - 1] ELSE heap
           g == IF guard[t].ewma # 0
                THEN [guard EXCEPT ![t].pc = "record", ![t].current = heap[guard[t].ewma]]
                ELSE [guard EXCEPT ![t] = NoGuard] IN
       /\ guard' = g
       /\ heap' = Gc(h, lb, g, utask)
    /\ UNCHANGED <<xVars, rlVars, routeVars, brkRest, breakers, upVars, discovered, lb, utask, nsel, nupd>>

\* update_latency: the store of the new EWMA (the penalty when the request
\* failed, the elapsed time otherwise)
GuardRecord(t) ==
    /\ guard[t].pc = "record"
    /\ \E elapsed \in (IF guard[t].skipped THEN SkipElapsedSamples ELSE ElapsedSamples) :
          LET latency == IF guard[t].failed THEN PENALTY_LATENCY_MS ELSE elapsed
              h == [heap EXCEPT ![guard[t].ewma] = ewma_update(guard[t].current, latency)]
              g == [guard EXCEPT ![t] = NoGuard] IN
          /\ guard' = g
          /\ heap' = Gc(h, lb, g, utask)
    /\ UNCHANGED <<xVars, rlVars, routeVars, brkRest, breakers, upVars, discovered, lb, utask, nsel, nupd>>

\* select_healthy_node: the candidate of select_upstream is flagged unhealthy
\* by the active health check; `continue` drops its RequestGuard
SelSkip(t) ==
    /\ guard[t].pc = "live"
    /\ ~guard[t].failed
    /\ ~is_node_healthy(node_health, guard[t].endpoint)
    /\ LET h == IF guard[t].counted
                THEN [heap EXCEPT ![guard[t].active] = @ - 1] ELSE heap
           g == IF guard[t].ewma # 0
                THEN [guard EXCEPT ![t].pc = "record", ![t].current = heap[guard[t].ewma],
                                   ![t].skipped = TRUE]
                ELSE [guard EXCEPT ![t] = NoGuard] IN
       /\ guard' = g
       /\ heap' = Gc(h, lb, g, utask)
    /\ UNCHANGED <<xVars, rlVars, routeVars, brkRest, breakers, upVars, discovered, lb, utask, nsel, nupd>>

\* DashMap::retain(|k, _| active_keys.contains(k))
retain_keys(m, active_keys) == [k \in DOMAIN m \cap active_keys |-> m[k]]

\* ClusterStore::upsert of an existing cluster, up to the load of the old
\* instance list in update_instances: a changed lb_type string builds a new
\* balancer, an empty node list leaves the balancer alone
UpsBegin(c) ==
    /\ utask.config.pc = "idle"
    /\ nupd < MaxUpdates
    /\ nupd' = nupd + 1
    /\ utask' = [utask EXCEPT !.config =
                    IF c.lb_type # cfg.lb_type \/ Len(c.nodes) = 0
                    THEN [pc |-> "insert", new_config |-> c, old |-> << >>]
                    ELSE [pc |-> "store", new_config |-> c, old |-> lb.instances]]
    /\ UNCHANGED <<xVars, rlVars, routeVars, brkRest, breakers, upVars, discovered, lb, heap, guard, nsel>>

\* update_config, same lb_type: self.lb.update_instances(&new_config.nodes),
\* the store of the new instance list
UpsStore ==
    /\ utask.config.pc = "store"
    /\ LET b == update_instances(lb.kind, utask.config.old, utask.config.new_config.nodes, heap)
           l == [lb EXCEPT !.instances = b.insts]
           u == [utask EXCEPT !.config.pc = "insert", !.config.old = << >>] IN
       /\ lb' = l
       /\ utask' = u
       /\ heap' = Gc(b.heap, l, guard, u)
    /\ UNCHANGED <<xVars, rlVars, routeVars, brkRest, breakers, upVars, discovered, guard, nsel, nupd>>

\* the rest of ClusterStore::upsert: the new Cluster value (with the new
\* balancer when lb_type changed), purge_stale_nodes on it, clusters.insert
UpsInsert ==
    /\ utask.config.pc = "insert"
    /\ LET c == utask.config.new_config
           changed == c.lb_type # cfg.lb_type
           n == NewLb(c.lb_type, c.nodes, heap)
           l == IF changed THEN n.lb ELSE lb
           u == [utask EXCEPT !.config = NoUTask.config,
                              !.discovery.stale = @ \/ (changed /\ utask.discovery.pc # "idle")]
           g == [t \in Callers |-> [guard[t] EXCEPT !.of_lb = @ /\ ~changed]]
           active_keys == node_keys(effective_list(discovered, c.nodes)) IN
       /\ lb' = l
       /\ rr_counter' = IF changed THEN 0 ELSE rr_counter
       /\ utask' = u
       /\ guard' = g
       /\ heap' = Gc(IF changed THEN n.heap ELSE heap, l, g, u)
       /\ node_health' = retain_keys(node_health, active_keys)
       /\ hc' = [hc EXCEPT !.count = retain_keys(@, active_keys)]
       /\ breakers' = retain_keys(breakers, active_keys)
       /\ cfg' = c
    /\ UNCHANGED <<bgVars, fnVars, rbVars, rlVars, routeVars, brkRest, req, discovered, nsel, nupd>>

\* the discovery poll: cluster_store.get, then update_discovered_nodes up to
\* the load of the old instance list in update_instances
DiscBegin(nodes) ==
    /\ utask.discovery.pc = "idle"
    /\ nupd < MaxUpdates
    /\ nupd' = nupd + 1
    /\ utask' = [utask EXCEPT !.discovery =
                    [pc |-> "store", nodes |-> nodes, old |-> lb.instances,
                     static_nodes |-> cfg.nodes, stale |-> FALSE]]
    /\ UNCHANGED <<xVars, rlVars, routeVars, brkRest, breakers, upVars, discovered, lb, heap, guard, nsel>>

\* self.lb.update_instances(&nodes), the store; the balancer of a clone whose
\* cluster has got a new balancer since is no longer the cluster's
DiscStore ==
    /\ utask.discovery.pc = "store"
    /\ LET t == utask.discovery
           b == update_instances(lb.kind, t.old, t.nodes, heap)
           l == IF t.stale THEN lb ELSE [lb EXCEPT !.instances = b.insts]
           u == [utask EXCEPT !.discovery.pc = "publish", !.discovery.old = << >>] IN
       /\ lb' = l
       /\ utask' = u
       /\ heap' = Gc(IF t.stale THEN heap ELSE b.heap, l, guard, u)
    /\ UNCHANGED <<xVars, rlVars, routeVars, brkRest, breakers, upVars, discovered, guard, nsel, nupd>>

\* self.discovered_nodes.store(..); self.purge_stale_nodes()
DiscPublish ==
    /\ utask.discovery.pc = "publish"
    /\ LET t == utask.discovery
           active_keys == node_keys(effective_list(t.nodes, t.static_nodes)) IN
       /\ discovered' = t.nodes
       /\ node_health' = retain_keys(node_health, active_keys)
       /\ hc' = [hc EXCEPT !.count = retain_keys(@, active_keys)]
       /\ breakers' = retain_keys(breakers, active_keys)
       /\ utask' = [utask EXCEPT !.discovery = NoUTask.discovery]
    /\ UNCHANGED <<bgVars, fnVars, rbVars, rlVars, routeVars, brkRest, cfg, rr_counter, req, lb, heap, guard, nsel, nupd>>

\* the balancers with shared per-node counters
ClusterSpecLbTypes == {"least_request", "peak_ewma"}

\* cluster configurations and discovery results of the cluster specification
ClusterSpecConfigs ==
    [nodes : NodeLists, retry : {None}, budget : {1}, lb_type : ClusterSpecLbTypes]

DiscoveredLists ==
    {<< >>, <<[endpoint |-> "b:80", weight |-> 1]>>}

InitClusterSpec == \E c \in ClusterSpecConfigs : InitCluster(c, None)

NextCluster ==
    \/ \E t \in Callers : LbSelect(t)
    \/ \E t \in Callers : LbAcquire(t)
    \/ \E t \in Callers : GuardMarkFailed(t)
    \/ \E t \in Callers : GuardDrop(t)
    \/ \E t \in Callers : GuardRecord(t)
    \/ \E c \in ClusterSpecConfigs : UpsBegin(c)
    \/ UpsStore
    \/ UpsInsert
    \/ \E nodes \in DiscoveredLists : DiscBegin(nodes)
    \/ DiscStore
    \/ DiscPublish
    \/ \E n \in Nodes, healthy \in BOOLEAN : MarkNode(n, healthy)

SpecCluster == InitClusterSpec /\ [][NextCluster]_vars

\* ------------------------------------------------------------------------
\* SpecHealth: the active health checker (upstream/health.rs) probing the
\* nodes of a cluster whose node list stays as configured
\* ------------------------------------------------------------------------
ActiveHealthChecks ==
    [healthy_threshold : 1..MaxHcThreshold, unhealthy_threshold : 1..MaxHcThreshold]

\* Cluster::record_health_check: fetch_add(1) on the node's counter, created
\* at 0 when absent
record_health_check(count, node_key) ==
    health_insert(count, node_key, IF node_key \in DOMAIN count THEN count[node_key] + 1 ELSE 1)

\* Cluster::reset_health_count: store 0 if the node has a counter
reset_health_count(count, node_key) ==
    IF node_key \in DOMAIN count THEN health_insert(count, node_key, 0) ELSE count

\* run_health_checks: the nodes of the round are cluster.effective_nodes()
\* as loaded when the round is set up; check_one_node sends its probe
HcBegin(n) ==
    /\ IsSome(hc.active)
    /\ hc.probe = ""
    /\ hc.nprobes < MaxProbes
    /\ n \in node_keys(effective_list(discovered, cfg.nodes))
    /\ hc' = [hc EXCEPT !.probe = n, !.nprobes = @ + 1]
    /\ UNCHANGED <<brkVars, upVars, routeVars, clVars, rlVars, bgVars, fnVars, rbVars>>

\* the outcome healthy of check_one_node: record_health_check, then
\* mark_node_healthy (insert and reset) at the threshold if the node is
\* flagged unhealthy
hc_passed(health, count, active, k) ==
    LET c == record_health_check(count, k) IN
    IF c[k] >= active.healthy_threshold /\ ~is_node_healthy(health, k)
    THEN [health |-> health_insert(health, k, TRUE), count |-> reset_health_count(c, k)]
    ELSE [health |-> health, count |-> c]

\* the outcome not healthy of check_one_node: reset_health_count, then
\* record_health_check, then mark_node_unhealthy at the threshold
hc_failed(health, count, active, k) ==
    LET c == record_health_check(reset_health_count(count, k), k) IN
    IF c[k] >= active.unhealthy_threshold
    THEN [health |-> health_insert(health, k, FALSE), count |-> reset_health_count(c, k)]
    ELSE [health |-> health, count |-> c]

\* check_one_node from the answer of the probe on
HcFinish(healthy) ==
    /\ hc.probe # ""
    /\ LET k == hc.probe
           r == IF healthy THEN hc_passed(node_health, hc.count, Unwrap(hc.active), k)
                ELSE hc_failed(node_health, hc.count, Unwrap(hc.active), k)
           len == IF k \in DOMAIN hc.run /\ hc.run[k].ok = healthy THEN hc.run[k].len + 1 ELSE 1 IN
       /\ node_health' = r.health
       /\ hc' = [hc EXCEPT !.probe = "", !.count = r.count,
                           !.run = health_insert(@, k, [ok |-> healthy, len |-> len])]
    /\ UNCHANGED <<brkVars, cfg, rr_counter, req, routeVars, clVars, rlVars, bgVars, fnVars, rbVars>>

InitHealth ==
    /\ \E c \in ClusterSpecConfigs : InitGatewayBase(c, None, NoRateLimit)
    /\ InitBackground
    /\ InitFn
    /\ \E a \in ActiveHealthChecks : hc = [NoHc EXCEPT !.active = Some(a)]
    /\ InitRb

NextHealth ==
    \/ \E n \in Nodes : HcBegin(n)
    \/ \E healthy \in BOOLEAN : HcFinish(healthy)

SpecHealth == InitHealth /\ [][NextHealth]_vars

\* ------------------------------------------------------------------------
\* SpecPurge: upserts of the cluster and discovery updates, each ending in
\* purge_stale_nodes, while a request and a health probe are under way
\* ------------------------------------------------------------------------
PurgeClusterConfigs ==
    [nodes : NodeLists, retry : {None}, budget : {1}, lb_type : {"roundrobin"}]

InitPurge ==
    /\ \E c \in PurgeClusterConfigs, cb \in UpstreamBreakerConfigs :
            InitGatewayBase(c, Some(cb), NoRateLimit)
    /\ InitBackground
    /\ InitFn
    /\ hc = [NoHc EXCEPT !.active = Some([healthy_threshold |-> 1, unhealthy_threshold |-> 1])]
    /\ InitRb

\* no request is inside a call of the breaker registry: such a call works on
\* the Arc<NodeBreaker> it got from get_or_create, whatever the registry
\* holds by then, so the purges are placed between the calls
NoBreakerCall ==
    \A t \in Callers :
        pc[t] \in {"idle", "done", "loop_head", "select", "sel_checked", "await", "after_resp"}

\* the balancer holds the configured node list: UpSelect draws from that
\* list, so the request of this specification selects while it is the
\* balancer's
LbAsConfigured ==
    /\ discovered = << >>
    /\ Len(lb.instances) = Len(cfg.nodes)
    /\ \A i \in 1..Len(cfg.nodes) : lb.instances[i].endpoint = cfg.nodes[i].endpoint

\* the steps of the breaker calls of one request with one attempt: its
\* check, then its record_success or record_failure, meet a breaker that
\* is Closed
ClosedBreakerStep(t) ==
    \/ CheckLoad(t)
    \/ RsLoad(t)
    \/ RsClosed(t)
    \/ RfLoad(t)
    \/ RfInc(t)
    \/ RfStore(t)
    \/ RfAt(t)

NextPurge ==
    \/ pc[1] = "idle" /\ UpBeginSolo(1)
    \/ \E r \in Callers : UpLoopHead(r)
    \/ \E r \in Callers : LbAsConfigured /\ UpSelect(r)
    \/ \E r \in Callers : UpSelChecked(r)
    \/ \E r \in Callers : UpAwait(r)
    \/ \E r \in Callers : UpAfterResp(r)
    \/ \E r \in Callers : ClosedBreakerStep(r)
    \/ \E c \in PurgeClusterConfigs : UpsBegin(c)
    \/ UpsStore
    \/ NoBreakerCall /\ UpsInsert
    \/ \E nodes \in DiscoveredLists : DiscBegin(nodes)
    \/ DiscStore
    \/ NoBreakerCall /\ DiscPublish
    \/ \E n \in Nodes : hc.nprobes < MaxPurgeProbes /\ HcBegin(n)
    \/ \E healthy \in BOOLEAN : HcFinish(healthy)

SpecPurge == InitPurge /\ [][NextPurge]_vars

\* ------------------------------------------------------------------------
\* SpecSelect: requests selecting together on a two-node cluster without
\* circuit breaker, the active health marks changing between selections
\* ------------------------------------------------------------------------
InitSelect ==
    \E c \in ClusterConfigs :
        /\ Len(c.nodes) = 2
        /\ c.retry = None
        /\ InitCluster(c, None)

\* no request is inside the loop of select_healthy_node
NoneSelecting == \A r \in Callers : pc[r] # "select"

NextSelect ==
    \/ \E r \in Callers : UpBegin(r)
    \/ \E r \in Callers : UpLoopHead(r)
    \/ \E r \in Callers : UpSelect(r)
    \/ \E r \in Callers : UpAwait(r)
    \/ \E r \in Callers : UpAfterResp(r)
    \/ \E n \in Nodes, healthy \in BOOLEAN : NoneSelecting /\ MarkNode(n, healthy)

SpecSelect == InitSelect /\ [][NextSelect]_vars

\* ------------------------------------------------------------------------
\* SpecRateLimit: request tasks checking one limiter together, its GC task
\* and the clock, the peer count staying 1
\* SpecRateLimitSolo: one check at a time, the instance registry changing
\* the peer count
\* ------------------------------------------------------------------------
InitRateLimit == \E rc \in RateLimitConfigs : InitGateway(NoCluster, None, rc)

NextRateLimit ==
    \/ \E t \in Checkers, key \in Keys : RlLookup(t, key)
    \/ \E t \in Checkers : RlTouch(t)
    \/ \E t \in Checkers : RlLock(t)
    \/ \E t \in Checkers : RlCommit(t)
    \/ \E t \in Checkers : RlReturn(t)
    \/ \E d \in TickSteps : RlTick(d)
    \/ EvictStale

SpecRateLimit == InitRateLimit /\ [][NextRateLimit]_vars

RlLookupSolo(key) ==
    /\ \A u \in Checkers : chk[u].pc = "idle"
    /\ RlLookup(1, key)

NextRateLimitSolo ==
    \/ \E key \in Keys : RlLookupSolo(key)
    \/ RlTouch(1)
    \/ RlLock(1)
    \/ RlCommit(1)
    \/ RlReturn(1)
    \/ \E d \in TickSteps : RlTick(d)
    \/ \E m \in InstanceCounts : SetInstanceCount(m)
    \/ EvictStale

SpecRateLimitSolo == InitRateLimit /\ [][NextRateLimitSolo]_vars

\* ------------------------------------------------------------------------
\* SpecSkip: selections of the cluster's balancer, candidates skipped by
\* select_healthy_node, attempts ending, active health marks
\* ------------------------------------------------------------------------
NextSkip ==
    \/ \E t \in Callers : LbSelect(t)
    \/ \E t \in Callers : LbAcquire(t)
    \/ \E t \in Callers : SelSkip(t)
    \/ \E t \in Callers : GuardMarkFailed(t)
    \/ \E t \in Callers : GuardDrop(t)
    \/ \E t \in Callers : GuardRecord(t)
    \/ \E n \in Nodes, healthy \in BOOLEAN : MarkNode(n, healthy)

SpecSkip == InitClusterSpec /\ [][NextSkip]_vars

\* ------------------------------------------------------------------------
\* SpecRebuild: one check at a time on the route's limiter, the clock, the
\* GC tasks, and domain changes rebuilding the route table
\* ------------------------------------------------------------------------
HasLimiter == rlim.cur # 0

NextRebuild ==
    \/ \E key \in Keys : HasLimiter /\ RlLookupSolo(key)
    \/ RlTouch(1)
    \/ RlLock(1)
    \/ RlCommit(1)
    \/ RlReturn(1)
    \/ \E d \in TickSteps : RlTick(d)
    \/ EvictStale
    \/ \E keep \in BOOLEAN : RebuildTable(keep)
    \/ \E id \in DOMAIN rlim.retired : GcRetired(id)

SpecRebuild == InitRateLimit /\ [][NextRebuild]_vars

\* ------------------------------------------------------------------------
\* SpecWatch: the config watcher against etcd, streams ending and failing
\* SpecWatchFair: the same, every task that can run does run
\* SpecLoops: the background loops and the shutdown notifier
\* SpecLoopsFair: the same, every step of a loop body comes to its end
\* ------------------------------------------------------------------------
InitWatch == InitGateway(NoCluster, None, NoRateLimit)

WatcherStep ==
    \/ WLoadClusters
    \/ WLoadDomains
    \/ WStart
    \/ WRecv
    \/ WClosed
    \/ WJoin
    \/ WBackoff
    \/ WReturn

StreamStep ==
    \/ \E k \in WatchKinds : SOpen(k)
    \/ \E k \in WatchKinds : SRecv(k)

NextWatch ==
    \/ \E kind \in WatchKinds : EtcdChange(kind)
    \/ WLoadClusters
    \/ WLoadDomains
    \/ WLoadFail
    \/ WStart
    \/ \E k \in WatchKinds : SOpen(k)
    \/ \E k \in WatchKinds : SOpenFail(k)
    \/ \E k \in WatchKinds : SRecv(k)
    \/ \E k \in WatchKinds : SEnd(k)
    \/ WRecv
    \/ WClosed
    \/ WJoin
    \/ WBackoff
    \/ WReturn
    \/ Shutdown

SpecWatch == InitWatch /\ [][NextWatch]_vars

SpecWatchFair == SpecWatch /\ WF_vars(WatcherStep) /\ WF_vars(StreamStep)

NextLoops ==
    \/ \E l \in LoopNames : LoopWorked(l)
    \/ \E l \in LoopNames : LoopWaited(l)
    \/ \E l \in LoopNames : LoopReturn(l)
    \/ Shutdown

SpecLoops == InitWatch /\ [][NextLoops]_vars

SpecLoopsFair ==
    /\ SpecLoops
    /\ \A l \in LoopNames : WF_vars(LoopWorked(l)) /\ WF_vars(LoopReturn(l))
    /\ \A l \in LoopNames \ {"registry_watch"} : WF_vars(LoopWaited(l))

\* ------------------------------------------------------------------------
\* SpecMatch: RouteTable::new on a domain list, the wildcard patterns in
\* any iteration order of their HashMap, then match_route on requests
\* ------------------------------------------------------------------------
HostA == <<"A", ".", "x">>

HostStarX == <<"*", ".", "x">>

HostAStar == <<"a", ".", "*">>

HostDefault == <<"_">>

\* hosts of incoming requests: "a.x", "a.X:8", "b.x", "b.y"
MatchRequestHosts ==
    {<<"a", ".", "x">>, <<"a", ".", "X", ":", "8">>, <<"b", ".", "x">>, <<"b", ".", "y">>}

\* "/", "/v1/users", "/v1/users/profile", "/v1/users/profile?q", "/v1/other", "/v2"
MatchRequestUris ==
    {<<"/">>, <<"/", "v1", "/", "users">>, <<"/", "v1", "/", "users", "/", "profile">>,
     <<"/", "v1", "/", "users", "/", "profile", "?", "q">>, <<"/", "v1", "/", "other">>,
     <<"/", "v2">>}

MatchRequests ==
    [host : MatchRequestHosts, uri : MatchRequestUris, method : {"GET", "post"},
     headers : {{}, {"x-canary"}}]

Route(name, uri, priority, methods, headers) ==
    [name |-> name, uri |-> uri, priority |-> priority, methods |-> methods,
     headers |-> headers, status |-> 1]

\* the routes of the domain whose tree is examined in depth
TreeRoutePool ==
    {Route("catchall", <<"/", "*">>, 0, {}, {}),
     Route("v1", <<"/", "v1", "/", "*">>, 0, {"post"}, {}),
     Route("users-any", <<"/", "v1", "/", "users", "/", "*">>, 0, {"GET"}, {}),
     Route("users", <<"/", "v1", "/", "users">>, 0, {}, {}),
     Route("profile", <<"/", "v1", "/", "users", "/", "profile">>, 0, {"get"}, {}),
     Route("profile-canary", <<"/", "v1", "/", "users", "/", "profile">>, 1, {}, {"x-canary"}),
     Route("profile-2", <<"/", "v1", "/", "users", "/", "profile">>, 0, {}, {})}

\* the sequences without repetition of at most n elements of S
RECURSIVE SeqsUpTo(_, _)
SeqsUpTo(S, n) ==
    IF n = 0 THEN {<< >>}
    ELSE LET shorter == SeqsUpTo(S, n - 1)
         IN  shorter \cup {Append(s, x) : s \in {t \in shorter : Len(t) = n - 1},
                                          x \in S}

NoRepeat(s) == \A i, j \in 1..Len(s) : s[i] = s[j] => i = j

\* the routes of a domain of the host partition
HostRouteLists ==
    {<<Route("all", <<"/", "*">>, 0, {}, {})>>,
     <<Route("get", <<"/", "v1", "/", "*">>, 0, {"GET"}, {})>>,
     <<[Route("off", <<"/", "*">>, 0, {}, {}) EXCEPT !.status = 0]>>}

HostDomains ==
    UNION {{[name |-> h.name, hosts |-> h.hosts, routes |-> rs] : rs \in HostRouteLists} :
            h \in {[name |-> "exact", hosts |-> <<HostA>>],
                   [name |-> "suffix", hosts |-> <<HostStarX>>],
                   [name |-> "prefix", hosts |-> <<HostAStar>>],
                   [name |-> "both", hosts |-> <<HostA, HostStarX>>],
                   [name |-> "_default", hosts |-> <<HostDefault>>]}}

\* the domain lists: one domain with up to MaxRoutes routes of the pool on
\* the default host, or up to MaxDomains domains of the host partition
MatchDomainLists ==
    {<<[name |-> "_default", hosts |-> <<HostDefault>>, routes |-> rs]>> :
        rs \in {s \in SeqsUpTo(TreeRoutePool, MaxRoutes) : s # << >> /\ NoRepeat(s)}}
    \cup {ds \in SeqsUpTo(HostDomains, MaxDomains) :
            /\ ds # << >>
            /\ \A i, j \in 1..Len(ds) : ds[i].name = ds[j].name => i = j}

InitMatch ==
    /\ InitGatewayBase(NoCluster, None, NoRateLimit)
    /\ InitBackground
    /\ InitHc
    /\ InitRb
    /\ m_domains \in MatchDomainLists
    /\ m_table = None
    /\ m_req = NoRequest
    /\ m_res = NoMatch
    /\ rr = NoRr
    /\ sample = NoSample

\* RouteTable::new
TableBuild(order) ==
    /\ m_table = None
    /\ m_table' = Some(RouteTable_new(m_domains, order))
    /\ UNCHANGED <<nonFnVars, m_domains, m_req, m_res, rr, sample>>

\* RouteTable::match_route; it only reads the table, so one request per
\* built table covers every request that table can be asked
TableMatch(request) ==
    /\ IsSome(m_table)
    /\ m_req = NoRequest
    /\ m_req' = request
    /\ m_res' = RouteTable_match_route(Unwrap(m_table), request)
    /\ UNCHANGED <<nonFnVars, m_domains, m_table, rr, sample>>

NextMatch ==
    \/ \E order \in IterationOrders(wildcard_patterns(m_domains)) : TableBuild(order)
    \/ \E request \in MatchRequests : TableMatch(request)

SpecMatch == InitMatch /\ [][NextMatch]_vars

\* ------------------------------------------------------------------------
\* SpecRoundRobin: RoundRobinBalancer::do_select on a fixed instance list,
\* the AtomicU64 counter scaled down to RrCounterBits bits
\* ------------------------------------------------------------------------
RrWeights == 0..3

RrInstanceLists ==
    {<< >>}
        \cup {<<[endpoint |-> "a:80", weight |-> w]>> : w \in RrWeights}
        \cup {<<[endpoint |-> "a:80", weight |-> w[1]], [endpoint |-> "b:80", weight |-> w[2]]>> :
                w \in RrWeights \X RrWeights}

InitRoundRobin ==
    /\ InitGatewayBase(NoCluster, None, NoRateLimit)
    /\ InitBackground
    /\ InitHc
    /\ InitRb
    /\ m_domains = << >>
    /\ m_table = None
    /\ m_req = NoRequest
    /\ m_res = NoMatch
    /\ \E insts \in RrInstanceLists : rr = [NoRr EXCEPT !.instances = insts]
    /\ sample = NoSample

\* total_weight as update_instances stores it: the sum of weight.max(1)
rr_total_weight(insts) == IF insts = << >> THEN 0 ELSE prefix_sum(insts, Len(insts))

\* the index do_select picks for the fetched counter value
UnweightedPick(insts, count) == (count % Len(insts)) + 1

rr_pick(insts, count) == rr_index(insts, count)

\* RoundRobinBalancer::do_select: None (index 0 in the history) when
\* total_weight is 0, else counter.fetch_add(1), which wraps, then
\* the instance at the partition point of count % total_weight; the history
\* keeps the counter value and the index of every selection
RrSelect ==
    /\ Len(rr.picks) < MaxPicks
    /\ rr' = IF rr_total_weight(rr.instances) = 0
             THEN [rr EXCEPT !.picks = Append(@, [count |-> rr.counter, idx |-> 0])]
             ELSE [rr EXCEPT !.counter = (@ + 1) % (2 ^ RrCounterBits),
                             !.picks = Append(@, [count |-> rr.counter,
                                                  idx |-> rr_pick(rr.instances, rr.counter)])]
    /\ UNCHANGED <<nonFnVars, m_domains, m_table, m_req, m_res, sample>>

NextRoundRobin == RrSelect

SpecRoundRobin == InitRoundRobin /\ [][NextRoundRobin]_vars

\* ------------------------------------------------------------------------
\* SpecP2C: do_select of the least-request and peak-EWMA balancers with the
\* two sampled indices on record, guards acquired and dropped in between
\* ------------------------------------------------------------------------
InitP2C ==
    /\ \E c \in ClusterSpecConfigs : Len(c.nodes) > 1 /\ InitGatewayBase(c, None, NoRateLimit)
    /\ InitBackground
    /\ InitHc
    /\ InitRb
    /\ m_domains = << >>
    /\ m_table = None
    /\ m_req = NoRequest
    /\ m_res = NoMatch
    /\ rr = NoRr
    /\ sample = NoSample

\* do_select of a P2C balancer of two or more instances with the samples
\* idx1 = gen_range(0..len) and offset = gen_range(1..len), then the
\* construction of the guard as in LbSelect
P2cSelect(t, sampled1, offset) ==
    /\ guard[t].pc = "idle"
    /\ nsel < MaxSelects
    /\ nsel' = nsel + 1
    /\ Len(lb.instances) > 1
    /\ sampled1 \in 1..Len(lb.instances)
    /\ offset \in 1..(Len(lb.instances) - 1)
    /\ LET idx2 == ((sampled1 - 1 + offset) % Len(lb.instances)) + 1
           i == p2c_pick(lb, heap, sampled1, offset)
       IN  /\ sample' = [idx1 |-> sampled1, idx2 |-> idx2, idx |-> i,
                         tie |-> /\ score_le(lb.kind, lb.instances[sampled1], lb.instances[idx2], heap)
                                 /\ score_le(lb.kind, lb.instances[idx2], lb.instances[sampled1], heap)]
           /\ guard' = [guard EXCEPT ![t] =
                          [pc |-> IF lb.kind = "LeastRequest" THEN "selected" ELSE "live",
                           endpoint |-> lb.instances[i].endpoint,
                           active |-> lb.instances[i].active,
                           ewma |-> lb.instances[i].ewma,
                           counted |-> lb.kind = "LeastRequest",
                           failed |-> FALSE,
                           current |-> 0,
                           of_lb |-> TRUE,
                           skipped |-> FALSE]]
    /\ UNCHANGED <<bgVars, hcVars, rbVars, m_domains, m_table, m_req, m_res, rr>>
    /\ UNCHANGED <<rlVars, routeVars, brkRest, breakers, cfg, node_health, req, rr_counter,
                   discovered, lb, heap, utask, nupd>>

NextP2C ==
    \/ \E t \in Callers, sampled1 \in 1..Len(lb.instances), offset \in 1..(Len(lb.instances) - 1) :
            P2cSelect(t, sampled1, offset)
    \/ \E t \in Callers : LbAcquire(t)
    \/ \E t \in Callers : GuardMarkFailed(t)
    \/ \E t \in Callers : GuardDrop(t)
    \/ \E t \in Callers : GuardRecord(t)

SpecP2C == InitP2C /\ [][NextP2C]_vars

\* ------------------------------------------------------------------------
\* Config mutations and the route match of a request (server/state.rs,
\* proxy/handler.rs)
\* ------------------------------------------------------------------------
\* upsert_domain: replace the domain of the same name or push
upsert(doms, domain) ==
    IF \E i \in 1..Len(doms) : doms[i].name = domain.name
    THEN [i \in 1..Len(doms) |-> IF doms[i].name = domain.name THEN domain ELSE doms[i]]
    ELSE Append(doms, domain)

\* delete_domain: domains.retain(|d| d.name != domain_name)
retain(doms, domain_name) == SelectSeq(doms, LAMBDA d : d.name # domain_name)

\* the tokio Mutex config_mu: lock().await returns when no task holds it
ConfigMuNeverHeld(mu) == TRUE

config_mu_free(mu) == mu = 0

\* self.config_mu.lock().await
MLock(m) ==
    /\ mtask[m].pc = "idle"
    /\ config_mu_free(config_mu)
    /\ config_mu' = m
    /\ mtask' = [mtask EXCEPT ![m].pc = "locked"]
    /\ UNCHANGED <<extVars, brkVars, upVars, domains, route_table, rtask, installedFull>>

\* upsert_domain up to rebuild_table: the new domain list
MUpsert(m, domain) ==
    /\ mtask[m].pc = "locked"
    /\ mtask' = [mtask EXCEPT ![m] = [pc |-> "build", domains |-> upsert(domains, domain),
                                      i |-> 1, new_table |-> EmptyTable]]
    /\ UNCHANGED <<extVars, brkVars, upVars, domains, route_table, config_mu, rtask, installedFull>>

\* delete_domain up to rebuild_table; an unknown name returns (the guard drops)
MDelete(m, domain_name) ==
    /\ mtask[m].pc = "locked"
    /\ LET doms == retain(domains, domain_name) IN
       IF Len(doms) = Len(domains)
       THEN /\ mtask' = [mtask EXCEPT ![m] = NewMTask]
            /\ config_mu' = 0
       ELSE /\ mtask' = [mtask EXCEPT ![m] = [pc |-> "build", domains |-> doms,
                                             i |-> 1, new_table |-> EmptyTable]]
            /\ UNCHANGED config_mu
    /\ UNCHANGED <<extVars, brkVars, upVars, domains, route_table, rtask, installedFull>>

\* RouteTable::new, one iteration of `for domain in domains` on the table
\* under construction
MBuild(m) ==
    /\ mtask[m].pc = "build"
    /\ mtask[m].i <= Len(mtask[m].domains)
    /\ mtask' = [mtask EXCEPT ![m].new_table = AddDomain(@, mtask[m].domains[mtask[m].i]),
                              ![m].i = @ + 1]
    /\ UNCHANGED <<extVars, brkVars, upVars, domains, route_table, config_mu, rtask, installedFull>>

\* rebuild_table: self.route_table.store(Arc::new(new_table))
MStoreTable(m) ==
    /\ mtask[m].pc = "build"
    /\ mtask[m].i > Len(mtask[m].domains)
    /\ route_table' = mtask[m].new_table
    /\ installedFull' = RouteTableNew(mtask[m].domains)
    /\ mtask' = [mtask EXCEPT ![m].pc = "store_domains"]
    /\ UNCHANGED <<extVars, brkVars, upVars, domains, config_mu, rtask>>

\* rebuild_table: self.domains.store(..); then the mutation returns and the
\* guard drops
MStoreDomains(m) ==
    /\ mtask[m].pc = "store_domains"
    /\ domains' = mtask[m].domains
    /\ config_mu' = 0
    /\ mtask' = [mtask EXCEPT ![m] = NewMTask]
    /\ UNCHANGED <<extVars, brkVars, upVars, route_table, rtask, installedFull>>

\* the table re-read from the shared pointer at every lookup
GuardTableReload(r) == route_table

\* the table a request matches against: the guard returned by
\* route_table.load() in phase_route_match
GuardTable(r) == rtask[r].table

\* phase_route_match: state.routing.route_table.load(); one request is in its
\* match phase at a time
RLoad(r, host) ==
    /\ \A u \in Callers : rtask[u].pc = "idle"
    /\ rtask' = [rtask EXCEPT ![r] = [pc |-> "exact", host |-> host, table |-> route_table,
                                      route |-> None, expect |-> installedFull]]
    /\ UNCHANGED <<extVars, brkVars, upVars, domains, route_table, config_mu, mtask, installedFull>>

\* match_route, the exact-host lookup
RExact(r) ==
    /\ rtask[r].pc = "exact"
    /\ LET found == match_exact(GuardTable(r), rtask[r].host) IN
       rtask' = [rtask EXCEPT ![r].route = found,
                              ![r].pc = IF IsSome(found) THEN "matched" ELSE "default"]
    /\ UNCHANGED <<extVars, brkVars, upVars, domains, route_table, config_mu, mtask, installedFull>>

\* match_route, the default-tree lookup
RDefault(r) ==
    /\ rtask[r].pc = "default"
    /\ rtask' = [rtask EXCEPT ![r].route = match_default(GuardTable(r)),
                              ![r].pc = "matched"]
    /\ UNCHANGED <<extVars, brkVars, upVars, domains, route_table, config_mu, mtask, installedFull>>

\* the request leaves phase_route_match with its route (or 404)
RDone(r) ==
    /\ rtask[r].pc = "matched"
    /\ rtask' = [rtask EXCEPT ![r] = NewRTask]
    /\ UNCHANGED <<extVars, brkVars, upVars, domains, route_table, config_mu, mtask, installedFull>>

InitRoute == InitCluster(NoCluster, None)

NextRoute ==
    \/ \E m \in Mutators : MLock(m)
    \/ \E m \in Mutators, domain \in DomainConfigs : MUpsert(m, domain)
    \/ \E m \in Mutators, domain_name \in DomainNames : MDelete(m, domain_name)
    \/ \E m \in Mutators : MBuild(m)
    \/ \E m \in Mutators : MStoreTable(m)
    \/ \E m \in Mutators : MStoreDomains(m)
    \/ \E r \in Callers, host \in RequestHosts : RLoad(r, host)
    \/ \E r \in Callers : RExact(r)
    \/ \E r \in Callers : RDefault(r)
    \/ \E r \in Callers : RDone(r)

SpecRoute == InitRoute /\ [][NextRoute]_vars

\* ------------------------------------------------------------------------
\* Properties of the time budget and of the metrics of a request
\* ------------------------------------------------------------------------
\* C11: the wall-clock time a request spends in upstream attempts, summed over
\* the first attempt and the retries, never exceeds timeout.send +
\* timeout.read: the timeout of an attempt is the budget that was left at the
\* head of its loop iteration, which is positive and no more than the budget
\* less the time already spent, and the attempt ends within that timeout
C11_AttemptsWithinBudget ==
    \A r \in Callers :
        LET q == req[r] IN
        /\ q.spent <= cfg.budget
        /\ pc[r] = "await" =>
              /\ per_attempt_timeout(q) > 0
              /\ per_attempt_timeout(q) = q.remaining
              /\ q.spent + per_attempt_timeout(q) <= cfg.budget
              /\ now - q.upstream_start <= per_attempt_timeout(q)

\* a retry was cut short by the budget: the first attempt and the retry that
\* timed out have together used the whole budget of 2
C11_Witness ==
    \E r \in Callers :
        /\ pc[r] = "after_resp"
        /\ req[r].nattempts = 2
        /\ req[r].outcome.kind = "timeout"
        /\ cfg.budget = 2
        /\ req[r].spent = 2
        /\ now - req[r].upstream_start = 1

\* C12: whichever exit a request takes, its metrics are finalized exactly
\* once: one increment of the request counter, one observation of the
\* request-duration histogram, and as many decrements of the in-flight gauge
\* as increments
C12_MetricsFinalizedOnce ==
    \A r \in Callers :
        /\ req[r].metrics.requests_total <= 1
        /\ req[r].metrics.request_duration <= 1
        /\ req[r].metrics.in_flight >= 0
        /\ pc[r] = "done" =>
              req[r].metrics = [requests_total |-> 1, request_duration |-> 1, in_flight |-> 0]

\* ------------------------------------------------------------------------
\* Properties of the load balancers and of the cluster's runtime state
\* ------------------------------------------------------------------------
\* the live guards the cluster's balancer has given out for the node
LiveGuards(endpoint) ==
    {t \in Callers : /\ guard[t].pc = "live"
                     /\ guard[t].counted
                     /\ guard[t].of_lb
                     /\ guard[t].endpoint = endpoint}

\* C13: for a least-request balancer, under any interleaving of selects, guard
\* drops and update_instances calls, the active-request counter of every node
\* of the balancer equals the number of guards acquired for that node and not
\* yet dropped
C13_ActiveEqualsLiveGuards ==
    lb.kind = "LeastRequest" =>
        \A i \in 1..Len(lb.instances) :
            heap[lb.instances[i].active] = Cardinality(LiveGuards(lb.instances[i].endpoint))

\* the store of update_instances called on the loaded list `old` keeps, for
\* every endpoint of the new list that `old` holds, the active-request counter
\* and the EWMA at the values they had just before
KeepsCounters(old) ==
    \A i \in 1..Len(lb'.instances) :
        LET inst == lb'.instances[i]
            j == find_existing(old, inst.endpoint) IN
        j # 0 =>
            /\ heap'[inst.active] = heap[old[j].active]
            /\ lb.kind = "PeakEwma" => heap'[inst.ewma] = heap[old[j].ewma]

\* C14: a node whose endpoint is in the old and in the new list of an
\* update_instances call of a least-request or peak-EWMA balancer has the same
\* active-request counter and the same EWMA right after the call as right
\* before it (so repeating the call with the same nodes changes neither)
C14_UpdateKeepsCounters ==
    [][/\ UpsStore => KeepsCounters(utask.config.old)
       /\ (DiscStore /\ ~utask.discovery.stale) => KeepsCounters(utask.discovery.old)]_vars

\* an upsert of the same least-request configuration has just stored its
\* instance list while a guard is live: the node's counter is still the cell
\* the guard incremented, at 1
C14_Witness ==
    /\ utask.config.pc = "insert"
    /\ utask.config.new_config = cfg
    /\ lb.kind = "LeastRequest"
    /\ \E t \in Callers, i \in 1..Len(lb.instances) :
          /\ guard[t].pc = "live"
          /\ lb.instances[i].endpoint = guard[t].endpoint
          /\ lb.instances[i].active = guard[t].active
          /\ heap[guard[t].active] = 1

\* what a balancer holds per instance: endpoint, weight and counter values
LbView(l, h) ==
    [i \in 1..Len(l.instances) |->
        [endpoint |-> l.instances[i].endpoint,
         weight |-> l.instances[i].weight,
         active |-> IF l.instances[i].active # 0 THEN h[l.instances[i].active] ELSE 0,
         ewma |-> IF l.instances[i].ewma # 0 THEN h[l.instances[i].ewma] ELSE 0]]

\* the counter values the balancer holds for an endpoint
CountersOf(l, h, endpoint) ==
    SelectSeq(LbView(l, h), LAMBDA v : v.endpoint = endpoint)

\* C15: an upsert that leaves the LB kind unchanged keeps, for the nodes of
\* the cluster, the breaker entries, the health entries and the balancer's
\* counters; an upsert of the configuration the cluster already has changes
\* no runtime state, also while the cluster has discovered nodes
C15_UpsertKeepsRuntimeState ==
    [][/\ UpsStore =>
            /\ \A e \in node_keys(effective_list(discovered, utask.config.new_config.nodes)) :
                  CountersOf(lb, heap, e) # << >> =>
                      CountersOf(lb', heap', e) = CountersOf(lb, heap, e)
            /\ utask.config.new_config = cfg => LbView(lb', heap') = LbView(lb, heap)
       /\ (UpsInsert /\ utask.config.new_config.lb_type = cfg.lb_type) =>
            /\ \A e \in node_keys(effective_list(discovered, utask.config.new_config.nodes)) :
                  /\ e \in DOMAIN node_health =>
                        e \in DOMAIN node_health' /\ node_health'[e] = node_health[e]
                  /\ e \in DOMAIN breakers =>
                        e \in DOMAIN breakers' /\ breakers'[e] = breakers[e]
            /\ utask.config.new_config = cfg =>
                  /\ node_health' = node_health
                  /\ breakers' = breakers
                  /\ LbView(lb', heap') = LbView(lb, heap)]_vars

\* a node list with at least one positive weight
HasPositiveWeight(nodes) == \E i \in 1..Len(nodes) : nodes[i].weight > 0

\* C16: once upserts and discovery updates have completed, a cluster whose
\* effective node list holds a node of positive weight always gets a node
\* from select_upstream
C16_SelectReturnsNode ==
    (/\ utask.config.pc = "idle"
     /\ utask.discovery.pc = "idle"
     /\ HasPositiveWeight(effective_list(discovered, cfg.nodes)))
        => selectable(lb, heap, rr_counter) # {}

\* ------------------------------------------------------------------------
\* Properties of the config mutations
\* ------------------------------------------------------------------------
\* the entries of a domain list under one name
EntriesOf(doms, name) == {doms[i] : i \in {j \in 1..Len(doms) : doms[j].name = name}}

\* the names whose entries differ between two domain lists
DiffNames(a, b) == {name \in DomainNames : EntriesOf(a, name) # EntriesOf(b, name)}

CaughtUp(k) == streams[k].st = "open" /\ Undelivered(k) = {}

\* the watches of the first round are open and everything they delivered
\* has been applied
FirstWatchesDrained ==
    /\ watcher.pc = "events"
    /\ watcher.reconnects = 0
    /\ CaughtUp("domain")
    /\ CaughtUp("cluster")
    /\ chan = << >>

\* C22: the initial load and the watches opened after it leave no gap: once
\* the first domain and cluster watches have delivered all they have and
\* the events are applied, every committed domain or cluster change has
\* reached the gateway, by the scan or as a ConfigEvent
C22_NoGapAfterScan ==
    FirstWatchesDrained
        => ChangesOf(etcd_log, "domain") \cup ChangesOf(etcd_log, "cluster") \subseteq applied

\* the same for the domain prefix alone, which is scanned last
C22_NoDomainGap == FirstWatchesDrained => ChangesOf(etcd_log, "domain") \subseteq applied

\* C23: whenever a watch stream has ended or failed, it is re-watched (or
\* the watcher is shut down): the watcher never stays with an ended stream
C23_EndedStreamRewatched ==
    \A k \in WatchKinds :
        (streams[k].st = "done") ~> (streams[k].st # "done" \/ shutdown)

\* C24: the stored revision never moves backwards, and when it moves
\* forward at the end of a round, every domain and cluster change up to the
\* new revision that the round was to deliver has been received
C24_RevisionPreserved ==
    [][/\ watcher'.revision >= watcher.revision
       /\ watcher.pc = "join" =>
            \A r \in ChangesOf(etcd_log, "domain") \cup ChangesOf(etcd_log, "cluster") :
                (watcher.revision < r /\ r <= watcher'.revision) => r \in applied']_vars

\* the stored revision alone
C24_RevisionMonotone == [][watcher'.revision >= watcher.revision]_vars

\* the received changes alone
C24_ResumeMissesNothing ==
    [][watcher.pc = "join" =>
            \A r \in ChangesOf(etcd_log, "domain") \cup ChangesOf(etcd_log, "cluster") :
                (watcher.revision < r /\ r <= watcher'.revision) => r \in applied']_vars

\* C25: after the shutdown notifier has fired, every background loop
\* eventually stops
C25_LoopsStopAfterShutdown == shutdown ~> (\A l \in LoopNames : loops[l] = "stopped")

\* a loop that was waiting in its select when the notifier fired does stop
C25_WaitingLoopsStop ==
    \A l \in LoopNames : (loops[l] = "notified") ~> (loops[l] = "stopped")

\* ------------------------------------------------------------------------
\* Properties of the route match
\* ------------------------------------------------------------------------
SeqRange(s) == {s[i] : i \in 1..Len(s)}

IsPrefixOf(p, s) == Len(p) <= Len(s) /\ SubSeq(s, 1, Len(p)) = p

\* a match has been made
Matched == m_req # NoRequest

\* the configured routes that went into the tree the result names
RoutesOfTree(doms, stage, key) ==
    CASE stage = "exact" -> SeqRange(routes_under(host_routes(doms), key, is_exact_key))
      [] stage = "wildcard" -> SeqRange(routes_under(host_routes(doms), key, is_wildcard_key))
      [] OTHER -> SeqRange(routes_under(host_routes(doms), HostDefault, is_default_host))

\* the route's method list and header conditions admit the request
Admits(route, request) ==
    /\ route.methods = {}
        \/ to_uppercase(request.method) \in {to_uppercase(m) : m \in route.methods}
    /\ route.headers \subseteq request.headers

\* the route's uri is the request path
UriExact(route, request) ==
    /\ ~parse_uri_segments(route.uri).is_wildcard
    /\ parse_uri_segments(route.uri).segments = split_uri_segments(request.uri)

\* the route is a wildcard over a prefix of `depth` segments of the request path
UriWildAt(route, request, depth) ==
    /\ parse_uri_segments(route.uri).is_wildcard
    /\ Len(parse_uri_segments(route.uri).segments) = depth
    /\ IsPrefixOf(parse_uri_segments(route.uri).segments, split_uri_segments(request.uri))

WildDepths(routes, request) ==
    {d \in 0..Len(split_uri_segments(request.uri)) : \E r \in routes : UriWildAt(r, request, d)}

Deepest(depths) == CHOOSE d \in depths : \A e \in depths : e <= d

\* `name` is a route of `routes` taken from the exact routes when there are
\* any, else from the wildcards of the deepest matching prefix
ExactElseDeepest(routes, request, name) ==
    IF \E r \in routes : UriExact(r, request)
    THEN \E r \in routes : r.name = name /\ UriExact(r, request)
    ELSE /\ WildDepths(routes, request) # {}
         /\ \E r \in routes :
                r.name = name /\ UriWildAt(r, request, Deepest(WildDepths(routes, request)))

\* C26 as stated: within the tree that produced it, the matched route is one
\* of the routes whose uri equals the request path when such routes exist,
\* else a wildcard route of the deepest prefix that matches the path
C26_ExactElseDeepestWildcard ==
    (Matched /\ IsSome(m_res.route))
        => ExactElseDeepest(RoutesOfTree(m_domains, m_res.stage, m_res.key), m_req,
                            Unwrap(m_res.route).name)

\* C26, amended: the same among the routes that pass the method and header
\* checks: the matched route is an exact-uri route when one of those passes
\* the checks, else a wildcard route of the deepest matching prefix that
\* holds a route passing the checks
C26_ExactElseDeepestAdmitted ==
    (Matched /\ IsSome(m_res.route))
        => ExactElseDeepest({r \in RoutesOfTree(m_domains, m_res.stage, m_res.key) :
                                Admits(r, m_req)},
                            m_req, Unwrap(m_res.route).name)

\* a request whose path has an exact route was matched to a wildcard route
\* of its tree, no exact route passing the checks
C26_Witness ==
    /\ Matched
    /\ IsSome(m_res.route)
    /\ LET routes == RoutesOfTree(m_domains, m_res.stage, m_res.key)
       IN  /\ \E r \in routes : UriExact(r, m_req)
           /\ \E r \in routes, d \in WildDepths(routes, m_req) :
                r.name = Unwrap(m_res.route).name /\ UriWildAt(r, m_req, d)

\* some route of `routes` matches the request's path and passes its checks
HasMatch(routes, request) ==
    \E r \in routes :
        /\ Admits(r, request)
        /\ UriExact(r, request) \/ \E d \in WildDepths(routes, request) : UriWildAt(r, request, d)

ReqHost(request) == before_first(request.host, ":")

\* the wildcard patterns that match the request host and whose routes have
\* a match for the request
MatchingPatterns(doms, request) ==
    {p \in wildcard_patterns(doms) :
        /\ host_matches(ReqHost(request), p)
        /\ HasMatch(RoutesOfTree(doms, "wildcard", p), request)}

\* the first stage in the order exact host, wildcard hosts, default that
\* has a match for the request
FirstStageWithMatch(doms, request) ==
    IF HasMatch(RoutesOfTree(doms, "exact", to_ascii_lowercase(ReqHost(request))), request)
    THEN "exact"
    ELSE IF MatchingPatterns(doms, request) # {} THEN "wildcard"
    ELSE IF HasMatch(RoutesOfTree(doms, "default", HostDefault), request) THEN "default"
    ELSE "none"

\* C27: match_route returns a route of the exact-host tree if that tree has
\* a route passing the uri, method and header checks, else a route of a
\* matching wildcard-host tree if one has such a route, else a route of the
\* default tree, else nothing: never a route of a later stage while an
\* earlier stage has a match
C27_StagesInOrder ==
    Matched =>
        /\ m_res.stage = FirstStageWithMatch(m_domains, m_req)
        /\ m_res.stage = "wildcard" => m_res.key \in MatchingPatterns(m_domains, m_req)
        /\ IsSome(m_res.route) =>
                \E r \in RoutesOfTree(m_domains, m_res.stage, m_res.key) :
                    /\ r.name = Unwrap(m_res.route).name
                    /\ Admits(r, m_req)
        /\ IsSome(m_res.route) <=> m_res.stage # "none"

\* the exact-host tree of the request's host exists but has no route for
\* the request, and the route came from a later stage
C27_Witness ==
    /\ Matched
    /\ m_res.stage \in {"wildcard", "default"}
    /\ to_ascii_lowercase(ReqHost(m_req)) \in exact_keys(m_domains)
    /\ RoutesOfTree(m_domains, "exact", to_ascii_lowercase(ReqHost(m_req))) # {}

\* the wildcard patterns in the order of their first appearance in the
\* domain list
RECURSIVE first_seen(_, _)
first_seen(pairs, seen) ==
    IF pairs = << >> THEN << >>
    ELSE IF Head(pairs).host # HostDefault /\ contains_star(Head(pairs).host)
            /\ Head(pairs).host \notin seen
    THEN <<Head(pairs).host>> \o first_seen(Tail(pairs), seen \cup {Head(pairs).host})
    ELSE first_seen(Tail(pairs), seen)

ConfigOrder(doms) == first_seen(host_routes(doms), {})

\* C28: the wildcard host patterns are tried in the order of the
\* configuration: the result of a match is the one of the table whose
\* patterns stand in that order, so a domain list and a request determine
\* the route
C28_WildcardsInConfigOrder ==
    Matched => m_res = RouteTable_match_route(RouteTable_new(m_domains, ConfigOrder(m_domains)), m_req)

\* ------------------------------------------------------------------------
\* Properties of the balancers' selection
\* ------------------------------------------------------------------------
RrTotal == rr_total_weight(rr.instances)

\* the `RrTotal` selections from selection `from` on, when that many were made
RrWindow(from) == SubSeq(rr.picks, from, from + RrTotal - 1)

RrWindows == {from \in 1..Len(rr.picks) : from + RrTotal - 1 <= Len(rr.picks)}

\* node i is selected clamped weight_i times in the window
ExactShares(win) ==
    \A i \in 1..Len(rr.instances) :
        Cardinality({k \in 1..Len(win) : win[k].idx = i}) = clamped_weight(rr.instances[i])

\* the counter wrapped between two selections of the window
WrapsIn(win) == \E k \in 1..(Len(win) - 1) : win[k + 1].count < win[k].count

AllWeightsZero(insts) == insts # << >> /\ \A i \in 1..Len(insts) : insts[i].weight = 0

\* C31: when every node of the instance list has weight zero, select
\* returns no node
C31_ZeroWeightsSelectNone ==
    AllWeightsZero(rr.instances) => \A k \in 1..Len(rr.picks) : rr.picks[k].idx = 0

\* C30: when the two sampled candidates of a P2C selection have equal
\* score, the one with the earlier index in the instance list is returned
C30_EarlierIndexOnTie ==
    (sample.idx # 0 /\ sample.tie) => sample.idx = min2(sample.idx1, sample.idx2)

\* on a tie the first sampled candidate is the one returned
C30_FirstSampledOnTie == (sample.idx # 0 /\ sample.tie) => sample.idx = sample.idx1

\* ------------------------------------------------------------------------
\* Properties of the active health checker
\* ------------------------------------------------------------------------
\* the node's latest probes: `len` consecutive ones with the outcome `ok`
RunOf(k, ok, len) == k \in DOMAIN hc.run /\ hc.run[k].ok = ok /\ hc.run[k].len >= len

\* C32: between probes, a node whose latest unhealthy_threshold probes all
\* failed is flagged unhealthy, and a node whose latest healthy_threshold
\* probes all succeeded is healthy
C32_ThresholdsMark ==
    (IsSome(hc.active) /\ hc.probe = "") =>
        \A k \in Nodes :
            /\ RunOf(k, FALSE, Unwrap(hc.active).unhealthy_threshold)
                    => ~is_node_healthy(node_health, k)
            /\ RunOf(k, TRUE, Unwrap(hc.active).healthy_threshold)
                    => is_node_healthy(node_health, k)

\* no upsert of the cluster and no discovery update is under way
NoUpdateUnderWay == utask.config.pc = "idle" /\ utask.discovery.pc = "idle"

\* C33: once an upsert of the cluster or a discovery update has completed,
\* the health map, the health streak counters and the breaker registry hold
\* entries only for nodes of the effective node set
C33_MapsWithinEffectiveSet ==
    (nupd > 0 /\ NoUpdateUnderWay) =>
        /\ DOMAIN node_health \subseteq effective_nodes
        /\ DOMAIN hc.count \subseteq effective_nodes
        /\ DOMAIN breakers \subseteq effective_nodes

\* the same of the breaker registry alone, which only requests write
C33_BreakersWithinEffectiveSet ==
    (nupd > 0 /\ NoUpdateUnderWay) => DOMAIN breakers \subseteq effective_nodes

\* ------------------------------------------------------------------------
\* Properties of the node selection
\* ------------------------------------------------------------------------
\* the breaker of node n would not answer Rejected: none is configured, the
\* node has none yet, or its breaker is Closed
NotRejecting(n) ==
    \/ ~IsSome(cb_cfg)
    \/ n \notin DOMAIN breakers
    \/ breakers[n].state = STATE_CLOSED

\* node n is one request r can be sent to
Eligible(r, n) ==
    /\ n \in effective_nodes
    /\ n \notin req[r].tried_addrs
    /\ is_node_healthy(node_health, n)
    /\ NotRejecting(n)

\* C34: a request whose cluster holds a node it has not tried, that is not
\* flagged unhealthy and whose breaker does not reject is not failed with
\* 'no upstream' by its node selection
C34_EligibleNodeIsSelected ==
    [][\A r \in Callers :
          (pc[r] = "select" /\ pc'[r] = "done" /\ req'[r].exit = "no_upstream")
              => ~\E n \in Nodes : Eligible(r, n)]_vars

\* C35: once the upserts of the cluster and the discovery updates begun so
\* far have completed, every node the balancer can select is in the
\* discovered list when that list is nonempty, and in the static nodes of
\* the configuration otherwise
C35_SelectsWithinEffectiveList ==
    NoUpdateUnderWay =>
        \A i \in selectable(lb, heap, rr_counter) : lb.instances[i].endpoint \in effective_nodes

\* ------------------------------------------------------------------------
\* Properties of the rate limiter
\* ------------------------------------------------------------------------
\* C17: at every moment each rate-limit map of the limiter (token buckets,
\* sliding windows) holds at most MAX_ENTRIES entries
C17_MapsWithinCap ==
    /\ Cardinality(DOMAIN buckets) <= MAX_ENTRIES
    /\ Cardinality(DOMAIN windows) <= MAX_ENTRIES

\* max(1, floor(c / max(1, n)))
Quota(c, n) ==
    IF c \div (IF n >= 1 THEN n ELSE 1) >= 1 THEN c \div (IF n >= 1 THEN n ELSE 1) ELSE 1

\* a sliding-window check that has returned
CountDone(t) == rl_cfg.mode = "count" /\ chk[t].pc = "done"

\* C18: in sliding-window mode with configured count c and peer count n, a
\* key admits max(1, floor(c / max(1, n))) requests within one window and no
\* more: a check is admitted only while fewer than that were admitted in the
\* key's current window, a check of a window that carries nothing over from
\* the previous one is rejected only when that many were admitted, and a
\* rejection carries the configured rejected_code
C18_AdmitsExactlyQuota ==
    \A t \in Checkers :
        CountDone(t) =>
            /\ chk[t].ret => chk[t].before < Quota(rl_cfg.count, chk[t].n)
            /\ (~chk[t].ret /\ chk[t].carried = 0)
                   => chk[t].before >= Quota(rl_cfg.count, chk[t].n)
            /\ ~chk[t].ret => chk[t].status = rl_cfg.rejected_code

\* C19: a sliding-window check is admitted only against the quota of the peer
\* count it read, max(1, floor(count / m)), whether its key was first seen
\* before or after the peer count rose to m
C19_AdmittedAgainstCurrentPeers ==
    \A t \in Checkers :
        (CountDone(t) /\ chk[t].ret)
            => chk[t].estimated < Quota(rl_cfg.count, chk[t].n)

\* C20: checks of one key take effect one at a time. No admission is lost
\* and a window never holds more than max_count of them; a finished check's
\* clock reading never lies a whole window past window_start (no advancement
\* skipped); a bucket's tokens are what was credited minus what was taken, its
\* last refill is the latest clock reading of a finished check (no refill
\* skipped), and no more was credited than the rate gives for the time since
\* the bucket was built (no refill applied twice)
C20_ChecksSerialized ==
    /\ \A o \in DOMAIN wheap :
          /\ wheap[o].wins = wheap[o].current_count
          /\ wheap[o].wins <= wheap[o].max_count
          /\ saturating_sub(wheap[o].seen, wheap[o].window_start) < wheap[o].window_us
    /\ \A o \in DOMAIN bheap :
          /\ bheap[o].tokens = bheap[o].granted - bheap[o].spent
          /\ bheap[o].tokens <= bheap[o].max_tokens
          /\ bheap[o].last_refill = bheap[o].seen
          /\ bheap[o].granted <=
                 bheap[o].max_tokens
                     + ((now_us - bheap[o].made_at) * bheap[o].rate_num) \div bheap[o].rate_den

\* a task waits for the lock of the object another task holds locked, after
\* an earlier check of the object has finished at a later clock reading
C20_Witness ==
    \E t \in Checkers, u \in Checkers :
        /\ chk[t].pc = "locked"
        /\ chk[u].pc = "wait"
        /\ chk[t].obj = chk[u].obj
        /\ chk[u].now < chk[t].now

\* ------------------------------------------------------------------------
\* Properties of the circuit breaker
\* ------------------------------------------------------------------------
Returned(t, op) == pc[t] = "ret" /\ bop[t] = op

\* C2: with non-overlapping calls, a record_failure on a breaker that was
\* Closed at the last record_success opens the breaker exactly when it is the
\* failure_threshold-th failure since that success; a record_success that
\* leaves the breaker Closed leaves consecutive_failures = 0; and with fewer
\* than failure_threshold failures since that success check returns Allowed.
C2_TripsExactlyAtThreshold ==
    \A t \in Callers :
        /\ (Returned(t, "record_failure") /\ streak.closed) =>
              (bret[t] = "Opened" <=> streak.fails = Br(t).config.failure_threshold)
        /\ (Returned(t, "record_success") /\ Br(t).state = STATE_CLOSED) =>
              Br(t).consecutive_failures = 0
        /\ (Returned(t, "check") /\ streak.closed
               /\ streak.fails < Br(t).config.failure_threshold) =>
              bret[t] = "Allowed"

\* C2 witness: the second failure after a success trips a threshold-2 breaker
C2_Witness ==
    \E t \in Callers :
        /\ Returned(t, "record_failure")
        /\ bret[t] = "Opened"
        /\ streak.closed
        /\ streak.fails = 2
        /\ Br(t).config.failure_threshold = 2

\* C3: a check that began after the latest transition into Open and took the
\* Open arm does not win the probe (it returns Rejected) while less than
\* open_duration has passed since that transition.
C3_RejectedUntilOpenDuration ==
    \A t \in Callers :
        (pc[t] = "check_reset" /\ ~cstale[t]) =>
           LET h == HistOf(bnode[t]) IN
           /\ IsSome(h.openedGhost)
           /\ Elapsed(Unwrap(h.openedGhost), now, Br(t).config.open_duration_secs)

\* C4: between two transitions into Open at most one check wins the
\* Open->HalfOpen compare-and-set.
C4_AtMostOneProbeWinner ==
    \A n \in DOMAIN hist : hist[n].winsSinceOpen <= 1

\* C4 witness: two callers passed the open_duration test; one has won the
\* compare-and-set and the other is about to try it
C4_Witness ==
    \E t, u \in Callers :
        /\ t # u
        /\ pc[t] = "check_reset"
        /\ pc[u] = "check_cas"
        /\ bnode[t] = bnode[u]

\* C6: with non-overlapping calls, the record_success that closes a HalfOpen
\* breaker is the success_threshold-th since HalfOpen was entered, and when
\* it returns consecutive_failures and half_open_successes are both 0.
C6_ClosesAtThresholdWithZeroCounters ==
    \A t \in Callers :
        (Returned(t, "record_success") /\ bret[t] = "Closed") =>
           /\ HistOf(bnode[t]).succSinceHalfOpen = Br(t).config.success_threshold
           /\ Br(t).consecutive_failures = 0
           /\ Br(t).half_open_successes = 0

\* a caller is inside the HalfOpen arm of record_failure on node n
InRfHalf(n) ==
    \E t \in Callers :
        bnode[t] = n /\ pc[t] \in {"rf_half_store", "rf_half_at", "rf_half_reset"}

\* C7: once a record_failure has re-opened a HalfOpen breaker, the breaker
\* stays Open until a check wins the next probe, whatever record_success
\* calls run concurrently.
C7_ReopenLeavesOpen ==
    \A n \in DOMAIN breakers :
        (HistOf(n).reopenPending /\ ~InRfHalf(n)) => breakers[n].state = STATE_OPEN

\* ------------------------------------------------------------------------
\* Properties of the upstream phase
\* ------------------------------------------------------------------------
\* C5: while a probe winner has not yet recorded the outcome of its probe,
\* no other request whose check saw the breaker HalfOpen is admitted to the
\* node (no such request has an upstream attempt in flight).
C5_OneProbeWhileHalfOpen ==
    \A r \in Callers : pc[r] = "await" => ~cprobe[r]

\* C8: an upstream attempt goes to a node that was untried, healthy and not
\* Rejected by the breaker when it was selected; and the breaker check of
\* select_healthy_node, issued after the latest transition into Open, does
\* not admit the node before open_duration has passed since that transition.
C8_AttemptsOnlyToAdmittedNodes ==
    \A r \in Callers :
        /\ pc[r] = "await" =>
              /\ req[r].addr \notin req[r].tried_addrs
              /\ req[r].picked_healthy
              /\ IsSome(cb_cfg) => bret[r] \in {"Allowed", "Probe"}
        /\ (pc[r] = "check_reset" /\ cont[r] = "sel_checked" /\ ~cstale[r]) =>
              LET h == HistOf(bnode[r]) IN
              /\ IsSome(h.openedGhost)
              /\ Elapsed(Unwrap(h.openedGhost), now, Br(r).config.open_duration_secs)

\* the scenario of C9: two nodes, retry.count = 1, retry_on_statuses = [503],
\* every attempt answered 503, the last attempt's response handled
RetryExhaustedOn503(r) ==
    /\ pc[r] = "done"
    /\ Len(cfg.nodes) = 2
    /\ IsSome(cfg.retry)
    /\ Unwrap(cfg.retry).count = 1
    /\ Unwrap(cfg.retry).retry_on_statuses = {503}
    /\ req[r].exit = "relay"
    /\ req[r].attempt = max_retries
    /\ req[r].all503

\* C9: in that scenario exactly two upstream attempts were made, the retry
\* counter was incremented once and the client receives 502.
C9_RetryExhaustedGives502 ==
    \A r \in Callers :
        RetryExhaustedOn503(r) =>
           /\ req[r].nattempts = 2
           /\ req[r].nretries = 1
           /\ req[r].status = 502

\* C10: a request that finds the remaining budget zero at the head of an
\* attempt (first or retry) fails with status 504.
C10_ZeroBudgetGives504 ==
    \A r \in Callers :
        (pc[r] = "done" /\ req[r].exit = "deadline") => req[r].status = 504

\* ------------------------------------------------------------------------
\* Properties of the route table snapshot
\* ------------------------------------------------------------------------
\* C1: the installed route table is always the complete table of one domain
\* list; the table a request matches against is the complete table that was
\* installed when it loaded it, whatever is installed meanwhile; and the
\* route it gets is the match of that one table.
C1_RequestSeesOneSnapshot ==
    /\ route_table = installedFull
    /\ \A r \in Callers :
          /\ rtask[r].pc # "idle" => rtask[r].table = rtask[r].expect
          /\ rtask[r].pc = "default" => ~IsSome(match_exact(rtask[r].expect, rtask[r].host))
          /\ rtask[r].pc = "matched" =>
                rtask[r].route = match_route(rtask[r].expect, rtask[r].host)

\* C1 witness: a request between its two lookups while a table with another
\* default route has been installed
C1_Witness ==
    \E r \in Callers :
        /\ rtask[r].pc = "default"
        /\ route_table # rtask[r].table
        /\ match_default(route_table) # match_default(rtask[r].table)


\* ------------------------------------------------------------------------
\* Properties of a re-closed breaker
\* ------------------------------------------------------------------------

\* C36: once a breaker has gone HalfOpen->Closed, a step that opens it again
\* is preceded by at least failure_threshold record_failure calls that were
\* in progress at, or began after, that close
C36_ReopenNeedsThresholdFailures ==
    [][\A n \in DOMAIN breakers \cap DOMAIN breakers' :
          (/\ breakers[n].state = STATE_CLOSED
           /\ breakers'[n].state = STATE_OPEN
           /\ IsSome(HistOf(n).failsSinceClose))
          => Unwrap(HistOf(n).failsSinceClose) >= breakers[n].config.failure_threshold]_vars


\* ------------------------------------------------------------------------
\* Properties of the limiters across route-table rebuilds
\* ------------------------------------------------------------------------

\* C37: a key that the route's limiter would reject when the route table is
\* rebuilt with the route's rate_limit unchanged is rejected by a check made
\* after the rebuild at the same clock reading
C37_ExhaustedKeyStaysRejected ==
    \A t \in Checkers :
        (/\ chk[t].pc = "done"
         /\ chk[t].key \in rlim.exhausted
         /\ chk[t].now = rlim.at)
        => ~chk[t].ret

\* the rate-limited routes of the installed route table
RateLimitedRoutes == IF rlim.cur # 0 THEN 1 ELSE 0

\* the limiters some Arc refers to: the one of the installed table's filter
\* and the ones held by the GC tasks
LiveLimiters == (IF rlim.cur # 0 THEN {rlim.cur} ELSE {}) \cup rlim.gc

\* C40: there are at most as many GC tasks, and as many limiters alive, as
\* the installed route table has rate-limited routes
C40_GcTasksWithinInstalledRoutes ==
    /\ Cardinality(rlim.gc) <= RateLimitedRoutes
    /\ Cardinality(LiveLimiters) <= RateLimitedRoutes


\* ------------------------------------------------------------------------
\* Properties of the peak-EWMA balancer
\* ------------------------------------------------------------------------

\* the guards LoadBalancer::select of the cluster's balancer has returned for
\* the node and that have not been dropped
GuardsHeld(endpoint) ==
    {t \in Callers : /\ guard[t].pc = "live"
                     /\ guard[t].of_lb
                     /\ guard[t].endpoint = endpoint}

\* C38: for a peak-EWMA balancer, the active_requests that score() loads for
\* a node equals the number of guards acquired for the node and not yet
\* dropped
C38_ScoreCountsLiveGuards ==
    lb.kind = "PeakEwma" =>
        \A i \in 1..Len(lb.instances) :
            heap[lb.instances[i].active] = Cardinality(GuardsHeld(lb.instances[i].endpoint))


\* C39: the drop of a candidate that select_healthy_node skipped leaves the
\* EWMA of its node as it was
C39_SkippedCandidateKeepsEwma ==
    [][\A t \in Callers :
          (/\ guard[t].pc = "record"
           /\ guard[t].skipped
           /\ guard'[t] = NoGuard
           /\ guard[t].ewma \in DOMAIN heap')
          => heap'[guard[t].ewma] = heap[guard[t].ewma]]_vars

====
